---- MODULE Spec2Model ----
(***************************************************************************)
(* State-machine model of the DoorOpener access engine (src/app.py): the   *)
(* /open-door handler with its three rate-limit dimensions (per IP key,    *)
(* per session, global), the signed-cookie session and the OIDC login      *)
(* handshake.                                                              *)
(*                                                                         *)
(* A handler is an operator that gives the set of its possible outcomes in *)
(* the current state (the tables and the session as it leaves them, and    *)
(* the response); the action of the handler commits one of them.  The      *)
(* properties quantify over the same outcomes.                             *)
(*                                                                         *)
(* Time is an integer clock in ticks.  Every call of get_current_time() or *)
(* time.time() is a separate read of that clock: a later read in the same  *)
(* handler may see a later tick (up to MaxLag ticks after the first).      *)
(*                                                                         *)
(* Python's None, a missing dict key and every other falsy value of a      *)
(* timestamp are the one value None; real timestamps start at 1.           *)
(*                                                                         *)
(* Spec, SpecOidc and SpecPolicy run whole handlers one after another;     *)
(* SpecLogin adds the callback with forged and defective tokens, SpecInput *)
(* every payload shape and actuator answer, SpecSession the logout,        *)
(* SpecAdmin the admin login and SpecFingerprint a second fingerprint at   *)
(* the same address.  SpecRace and SpecBudget have two threads that run    *)
(* the PIN path statement by statement on the shared tables.  SpecDelay    *)
(* and SpecValidate call a pure function.                                  *)
(***************************************************************************)
EXTENDS Integers, Sequences, FiniteSets, TLC

VARIABLES
    clock,                    \* the wall clock
    ip_failed_attempts,       \* app.py:264  identifier -> int
    ip_blocked_until,         \* app.py:265  identifier -> None | time
    session_failed_attempts,  \* app.py:266  session id -> int
    session_blocked_until,    \* app.py:267  session id -> None | time
    global_failed_attempts,   \* app.py:268
    global_last_reset,        \* app.py:269
    oauth,                    \* app.py:179  the registered OIDC client, or falsy
    cfg,                      \* app.py:176-177, 230  the configuration loaded at start
    cookie,                   \* client -> the Flask session (signed cookie) it holds
    next_sid,                 \* the next fresh value of secrets.token_hex(16)
    last,                     \* the last request handled and its response
    fn_arg,                   \* argument of a pure-function call (SpecDelay)
    fn_ret,                   \* <<>> before the call, then <<its result>>
    thr                       \* handler runs in flight (SpecRace): thread -> its locals

vars == <<clock, ip_failed_attempts, ip_blocked_until, session_failed_attempts,
          session_blocked_until, global_failed_attempts, global_last_reset,
          oauth, cfg, cookie, next_sid, last, fn_arg, fn_ret, thr>>

-----------------------------------------------------------------------------
(* Values *)

None == 0

\* Model bounds
MaxTime == 4
MaxLag == 1
MaxSids == 3
MaxFail == 3
MaxArg == 30
MaxPinLen == 9

\* Configuration (app.py:271-278 reads it from the config file; small values here)
MAX_ATTEMPTS == 3
BLOCK_TIME == 2
MAX_GLOBAL_ATTEMPTS_PER_HOUR == 4
SESSION_MAX_ATTEMPTS == 2
HOUR == 2
\* app.py:1139: the clock skew allowed on a token's exp and nbf
Leeway == 1

\* app.py:175-177, 230: the configurations a deployment may load; the admin
\* group is oidc_admin_group or not configured
oidc_admin_group == "door-admins"
Configs ==
    [ oidc_admin_group : {"", oidc_admin_group},
      oidc_user_group : {"", "door-users"},
      require_pin_for_oidc : BOOLEAN,
      test_mode : BOOLEAN ]

\* app.py:233: the admin password of the deployment, and what a caller may
\* send as password: it, another text, or nothing (an empty or missing one)
admin_password == "s3cret"
Passwords == {admin_password, "guess", ""}

Clients == {"c1", "c2"}
\* How a client uses its cookie jar: "jar" sends the stored cookie and stores the
\* one in the response; "nocookie" sends none and drops the response's
CookieModes == {"jar", "nocookie"}
Sids == 1..MaxSids
IPs == {"10.0.0.7"}
Buckets == {1, 2}
Idents == IPs \X Buckets

Min(a, b) == IF a <= b THEN a ELSE b
Max(a, b) == IF a >= b THEN a ELSE b

\* Request headers: the User-Agent's length, whether its lower-cased text
\* contains one of the signatures of app.py:403, and the text that is hashed
Headers ==
    { [ua |-> "Mozilla/5.0 (X11; Linux x86_64)", ualen |-> 31, botsig |-> FALSE, lang |-> "en"],
      [ua |-> "Mozilla/5.0 (Macintosh)", ualen |-> 23, botsig |-> FALSE, lang |-> "de"],
      [ua |-> "curl/8.4.0", ualen |-> 10, botsig |-> TRUE, lang |-> ""],
      [ua |-> "", ualen |-> 0, botsig |-> FALSE, lang |-> ""] }

\* hash(user_agent + accept_lang) % 10000 (app.py:336), on the headers above
HashMod(h) == IF h.ua = "Mozilla/5.0 (Macintosh)" THEN 2 ELSE 1

\* The effective PIN table (users_store.effective_pins), in iteration order
Users == <<"alice", "bob">>
UserPin == [alice |-> <<"1", "2", "3", "4">>, bob |-> <<"5", "6", "7", "8">>]

DigitChars == {"0", "1", "2", "3", "4", "5", "6", "7", "8", "9"}
\* The characters str.isdigit() accepts (app.py:418): the ASCII digits and the
\* other characters of Unicode numeric type Digit or Decimal, of which two
\* stand here: SUPERSCRIPT TWO and ARABIC-INDIC DIGIT THREE
IsDigitChars == DigitChars \cup {"U+00B2", "U+0663"}

\* JSON request bodies.  kind: what request.get_json returns; pt: the type of
\* data["pin"] ("absent": no such key); ps: a string's characters; pn: a number
Body(kind, pt, ps, pn) == [kind |-> kind, pt |-> pt, ps |-> ps, pn |-> pn]
Bodies ==
    { Body("none", "absent", <<>>, 0),                  \* no or unparsable body
      Body("dict", "absent", <<>>, 0),                  \* {"x": 1}
      Body("dict", "null", <<>>, 0),                    \* {"pin": null}
      Body("dict", "str", <<>>, 0),                     \* {"pin": ""}
      Body("dict", "int", <<>>, 1234),                  \* {"pin": 1234}
      Body("dict", "str", <<"1", "2", "3", "4">>, 0),   \* {"pin": "1234"}
      Body("dict", "str", <<"9", "9", "9", "9">>, 0),   \* {"pin": "9999"}
      Body("dict", "str", <<"1", "2", "a", "4">>, 0),   \* {"pin": "12a4"}
      Body("dict", "str", <<"1", "2", "3">>, 0),        \* {"pin": "123"}
      Body("array", "absent", <<>>, 0) }                \* [1]

\* Outcomes of ha_session.post(...): an HTTP status, or an exception
HAOutcomes == {"200", "204", "500", "ConnectionError", "Exception"}

\* The keys of the Flask session
EmptyCookie ==
    [ sid |-> None, blocked_until_ts |-> None,
      oidc_authenticated |-> FALSE, oidc_user |-> None, oidc_groups |-> {},
      oidc_exp |-> None, oidc_state |-> None, oidc_nonce |-> None,
      admin_authenticated |-> FALSE, admin_login_time |-> None, admin_user |-> None ]

\* The worker threads of the server (app.run, app.py:1693-1698, serves each
\* request in a thread of its own) and the locals of a run of open_door that
\* a thread is in: where it is, its session, whether its PIN is a user's, the
\* time it read at the start, its answer, the number of the run, and the
\* number of the other thread's run if that one was in its delay at the start,
\* and the counter value that an augmented assignment has loaded
Threads == {"a", "b"}
IdleThread ==
    [ pc |-> "idle", sid |-> 1, ok |-> FALSE, now |-> None,
      verdict |-> "-", why |-> "-", n |-> 0, peer_n |-> 0, tmp |-> 0, remaining |-> 0 ]

\* The last request handled: the handler, the body sent, and of the response
\* the verdict, the branch of the handler that produced it, and the
\* authentication path ("pin" or "oidc") it was reached on
NoLast ==
    [ op |-> "none", body |-> Body("none", "absent", <<>>, 0),
      verdict |-> "-", why |-> "-", path |-> "-" ]

-----------------------------------------------------------------------------
(* Pure helpers of app.py *)

\* Fault: the exponent is the attempt count itself
get_delay_seconds_shifted(attempt_count) ==
    IF attempt_count > 0 THEN Min(2 ^ attempt_count, 16) ELSE 0

\* app.py:377-379
get_delay_seconds(attempt_count) ==
    IF attempt_count > 0 THEN Min(2 ^ (attempt_count - 1), 16) ELSE 0

\* Fault: the budget admits one attempt more
check_global_rate_limit_inclusive(gfa, glr, now) ==
    LET reset == now - glr > HOUR
        gfa2 == IF reset THEN 0 ELSE gfa
        glr2 == IF reset THEN now ELSE glr
    IN  [allowed |-> gfa2 <= MAX_GLOBAL_ATTEMPTS_PER_HOUR, gfa |-> gfa2, glr |-> glr2]

\* Fault: the window is reset when the hour is reached, not when it has passed
check_global_rate_limit_early(gfa, glr, now) ==
    LET reset == now - glr >= HOUR
        gfa2 == IF reset THEN 0 ELSE gfa
        glr2 == IF reset THEN now ELSE glr
    IN  [allowed |-> gfa2 < MAX_GLOBAL_ATTEMPTS_PER_HOUR, gfa |-> gfa2, glr |-> glr2]

\* app.py:382-392, on explicit state: the verdict, and the counter and the
\* window start as the call leaves them
check_global_rate_limit(gfa, glr, now) ==
    LET reset == now - glr > HOUR
        gfa2 == IF reset THEN 0 ELSE gfa
        glr2 == IF reset THEN now ELSE glr
    IN  [allowed |-> gfa2 < MAX_GLOBAL_ATTEMPTS_PER_HOUR, gfa |-> gfa2, glr |-> glr2]

\* Fault: only a missing User-Agent counts as too short
is_request_suspicious_missing(h) ==
    \/ h.ualen = 0
    \/ h.botsig

\* app.py:395-411
is_request_suspicious(h) ==
    \/ h.ualen = 0 \/ h.ualen < 10
    \/ h.botsig

\* app.py:414-423: <<valid, normalized pin>>
validate_pin_input(b) ==
    IF b.pt # "str" THEN <<FALSE, <<>>>>
    ELSE IF ~(Len(b.ps) > 0 /\ \A i \in 1..Len(b.ps) : b.ps[i] \in IsDigitChars)
            \/ ~(4 <= Len(b.ps) /\ Len(b.ps) <= 8)
         THEN <<FALSE, <<>>>>
         ELSE <<TRUE, b.ps>>

\* Fault: the key is the address alone
IdentifierIpOnly(ip, h) == <<ip, 1>>

\* app.py:320-338: the composite identifier
Identifier(ip, h) == <<ip, HashMod(h)>>

\* Python truthiness of data and of data.get("pin")
DataTruthy(b) == b.kind \in {"dict", "array"}
PinTruthy(b) ==
    \/ b.pt = "str" /\ Len(b.ps) > 0
    \/ b.pt = "int" /\ b.pn # 0

\* Fault: every well-formed PIN is taken for the first user's
MatchUserAny(pin) == Users[1]

\* app.py:823-826: the first user, in iteration order, whose PIN equals the input
RECURSIVE MatchFrom(_, _)
MatchFrom(pin, i) ==
    IF i > Len(Users) THEN "" 
    ELSE IF pin = UserPin[Users[i]] THEN Users[i] ELSE MatchFrom(pin, i + 1)
MatchUser(pin) == MatchFrom(pin, 1)

\* Fault: the comparison of the persisted mirror is inverted
CookieBlockedAfter(ck, t) == ck.blocked_until_ts # None /\ t > ck.blocked_until_ts

\* app.py:523: the persisted mirror blocks
CookieBlocked(ck, t) == ck.blocked_until_ts # None /\ t < ck.blocked_until_ts
\* app.py:547-550, 630-633, 830-833
SessionBlocked(sb, sid, now) == sb[sid] # None /\ now < sb[sid]
\* app.py:574, 633, 833
IpBlocked(ipb, ident, now) == ipb[ident] # None /\ now < ipb[ident]

\* Faults: the thresholds are off by one
SessionThresholdOver(n) == n > SESSION_MAX_ATTEMPTS
IpThresholdOver(n) == n > MAX_ATTEMPTS

\* app.py:994 and 1001
SessionThreshold(n) == n >= SESSION_MAX_ATTEMPTS
IpThreshold(n) == n >= MAX_ATTEMPTS

\* app.py:617
OidcUserAllowed(user_group, groups) == user_group = "" \/ user_group \in groups

\* Fault: a session without a stored expiry never expires
OidcExpiredIfPresent(exp, t) == exp # None /\ exp < t

\* app.py:603: the stored expiry is missing or has passed
OidcExpired(exp, t) == exp = None \/ exp < t

-----------------------------------------------------------------------------
(* The state after the module is imported (app.py:264-269, 179-201) *)

Init ==
    /\ clock = 1
    /\ ip_failed_attempts = [i \in Idents |-> 0]
    /\ ip_blocked_until = [i \in Idents |-> None]
    /\ session_failed_attempts = [s \in Sids |-> 0]
    /\ session_blocked_until = [s \in Sids |-> None]
    /\ global_failed_attempts = 0
    /\ global_last_reset = 1
    /\ oauth = TRUE
    /\ cfg = [oidc_admin_group |-> oidc_admin_group, oidc_user_group |-> "door-users",
              require_pin_for_oidc |-> FALSE, test_mode |-> FALSE]
    /\ cookie = [c \in Clients |-> EmptyCookie]
    /\ next_sid = 1
    /\ last = NoLast
    /\ fn_arg = 0
    /\ fn_ret = <<>>
    /\ thr = [t \in Threads |-> IdleThread]

\* Time passes between requests
Tick ==
    /\ clock < MaxTime
    /\ clock' = clock + 1
    /\ last' = [NoLast EXCEPT !.op = "tick"]
    /\ UNCHANGED <<ip_failed_attempts, ip_blocked_until, session_failed_attempts,
                   session_blocked_until, global_failed_attempts, global_last_reset,
                   oauth, cfg, cookie, next_sid, fn_arg, fn_ret, thr>>

-----------------------------------------------------------------------------
(* /open-door (app.py:481-1051).  x is the handler's view: the request r,  *)
(* its locals, the session and the shared tables as it leaves them.        *)

\* A later read of the clock in the same handler run
Reads(x) == x.t .. Min(x.now + MaxLag, MaxTime)

\* str(e) of the exceptions that open_door can meet: data.get on a JSON
\* array (app.py:620) and a failure of the call of Home Assistant that is
\* not a requests.RequestException
ExceptionText(verdict) ==
    IF verdict = "InternalError" THEN "'list' object has no attribute 'get'"
    ELSE "actuator call failed"

\* Fault: the top-level handler answers with the text of the exception
TopLevelMessageLeaks(e) == e

\* app.py:1051: the message of the top-level exception handler
TopLevelMessage(e) == "Internal server error"

\* The "message" of the JSON response, by the branch that answers
Message(verdict, why, actuator) ==
    CASE verdict = "Suspicious" -> "Request blocked"
      [] verdict = "RateLimited" /\ why = "global" -> "Service temporarily unavailable"
      [] verdict = "RateLimited" /\ why # "global" ->
             "Too many failed attempts. Please try again later."
      [] verdict = "PinRequired" -> "PIN required"
      [] verdict = "InvalidFormat" -> "Invalid PIN format"
      [] verdict = "InvalidPin" -> "Invalid PIN"
      [] verdict = "Granted" -> "Door open command sent"
      [] verdict = "UpstreamError" -> "Home Assistant API error: " \o actuator
      [] verdict = "UpstreamUnreachable" -> "Failed to contact Home Assistant"
      [] verdict = "ApiFailure" -> "Internal server error during API call"
      [] verdict = "InternalError" -> TopLevelMessage(ExceptionText(verdict))

\* The response
Resp(x, verdict, code, why, bu, actuator, path) ==
    [ verdict |-> verdict, code |-> code, why |-> why, blocked_until |-> bu,
      actuator |-> actuator, path |-> path, delay |-> x.delay,
      remaining |-> x.remaining, message |-> Message(verdict, why, actuator) ]

\* The handler returns
Out(x, resp) == {[x |-> x, resp |-> resp]}

\* app.py:635-677 and 835-877: the latest end of the active in-memory blocks
RecheckBlockedUntil(x) ==
    LET s == IF SessionBlocked(x.sb, x.sid, x.now) THEN x.sb[x.sid] ELSE None
    IN  IF IpBlocked(x.ipb, x.ident, x.now)
        THEN Max(IF s # None THEN s ELSE x.ipb[x.ident], x.ipb[x.ident])
        ELSE s

\* Fault: a failure is not counted against the global budget
CountFailureNoGlobal(x) ==
    [x EXCEPT !.ipf[x.ident] = @ + 1, !.sf[x.sid] = @ + 1]

\* app.py:803-805 and 989-991
CountFailure(x) ==
    [x EXCEPT !.ipf[x.ident] = @ + 1, !.sf[x.sid] = @ + 1, !.gfa = @ + 1]

\* Fault: a failed call of Home Assistant is counted as a failed attempt
ActuatorCountsFailure(x, path) ==
    { LET y == IF ha = "200" THEN x ELSE CountFailure(x) IN
      [ x |-> y,
        resp |-> CASE ha = "200" -> Resp(y, "Granted", 200, "opened", None, ha, path)
                   [] ha = "204" -> Resp(y, "UpstreamError", 500, "api_error", None, ha, path)
                   [] ha \in {"500", "ConnectionError"} ->
                         Resp(y, "UpstreamUnreachable", 502, "request_exception", None, ha, path)
                   [] OTHER -> Resp(y, "ApiFailure", 500, "exception", None, ha, path) ] :
      ha \in HAOutcomes }

\* app.py:718-792 and 913-986: the call of Home Assistant and its outcome
Actuator(x, path) ==
    { [ x |-> x,
        resp |-> CASE ha = "200" -> Resp(x, "Granted", 200, "opened", None, ha, path)
                   [] ha = "204" -> Resp(x, "UpstreamError", 500, "api_error", None, ha, path)
                   [] ha \in {"500", "ConnectionError"} ->
                         Resp(x, "UpstreamUnreachable", 502, "request_exception", None, ha, path)
                   [] OTHER -> Resp(x, "ApiFailure", 500, "exception", None, ha, path) ] :
      ha \in HAOutcomes }

\* app.py:695-716 and 889-911, then the actuator
Open(x, path) ==
    IF cfg.test_mode
    THEN Out(x, Resp(x, "Granted", 200, "test_mode", None, "-", path))
    ELSE Actuator(x, path)

\* Fault: the federated path forgets the session counter
OidcResetIpOnly(x) ==
    IF ~SessionBlocked(x.sb, x.sid, x.now) /\ ~IpBlocked(x.ipb, x.ident, x.now)
    THEN [x EXCEPT !.ipf[x.ident] = 0, !.ipb[x.ident] = None, !.sb[x.sid] = None]
    ELSE x

\* app.py:679-692: the reset on the federated path
OidcReset(x) ==
    IF ~SessionBlocked(x.sb, x.sid, x.now) /\ ~IpBlocked(x.ipb, x.ident, x.now)
    THEN [x EXCEPT !.ipf[x.ident] = 0, !.sf[x.sid] = 0,
                   !.ipb[x.ident] = None, !.sb[x.sid] = None]
    ELSE x

\* app.py:879-886: the reset on the PIN path
PinReset(x) ==
    [x EXCEPT !.ipf[x.ident] = 0, !.sf[x.sid] = 0,
              !.ipb[x.ident] = None, !.sb[x.sid] = None,
              !.ck.blocked_until_ts = None]

\* app.py:1015-1022: the block end reported with a failed attempt
FailureBlockedUntil(x) ==
    IF SessionBlocked(x.sb, x.sid, x.now) THEN x.sb[x.sid]
    ELSE IF IpBlocked(x.ipb, x.ident, x.now) THEN x.ipb[x.ident]
    ELSE None

\* Fault: the remaining budget is that of the IP key alone
RemainingAttemptsIp(x) == MAX_ATTEMPTS - x.ipf[x.ident]

\* app.py:1009-1012: remaining_attempts, on the counters as incremented
RemainingAttempts(x) ==
    Min(SESSION_MAX_ATTEMPTS - x.sf[x.sid], MAX_ATTEMPTS - x.ipf[x.ident])

\* app.py:987-1033: a well-formed PIN that matches no user
WrongPin(x0) ==
    LET x == CountFailure(x0) IN
    IF SessionThreshold(x.sf[x.sid])
    THEN UNION { LET y == [x EXCEPT !.sb[x.sid] = x.now + BLOCK_TIME,
                                    !.ck.blocked_until_ts = tP + BLOCK_TIME,
                                    !.t = tP]
                 IN  Out(y, Resp(y, "InvalidPin", 401, "session_blocked",
                                 FailureBlockedUntil(y), "-", "pin")) :
                 tP \in Reads(x) }
    ELSE IF IpThreshold(x.ipf[x.ident])
    THEN LET y == [x EXCEPT !.ipb[x.ident] = x.now + BLOCK_TIME]
         IN  Out(y, Resp(y, "InvalidPin", 401, "ip_blocked",
                         FailureBlockedUntil(y), "-", "pin"))
    ELSE LET y == [x EXCEPT !.delay = get_delay_seconds(x.sf[x.sid]),
                            !.remaining = RemainingAttempts(x)]
         IN  Out(y, Resp(y, "InvalidPin", 401, "delayed",
                         FailureBlockedUntil(y), "-", "pin"))

\* Fault: a PIN of invalid format is held against the session's limit
PinPathFormatBlocks(x) ==
    IF ~DataTruthy(x.r.body) \/ x.r.body.pt = "absent"
    THEN Out(x, Resp(x, "PinRequired", 400, "pin_required", None, "-", "pin"))
    ELSE IF ~validate_pin_input(x.r.body)[1]
    THEN LET y == CountFailure(x)
             z == IF SessionThreshold(y.sf[y.sid])
                  THEN [y EXCEPT !.sb[y.sid] = y.now + BLOCK_TIME]
                  ELSE y
         IN  Out(z, Resp(z, "InvalidFormat", 400, "invalid_format", None, "-", "pin"))
    ELSE IF MatchUser(validate_pin_input(x.r.body)[2]) # ""
    THEN IF SessionBlocked(x.sb, x.sid, x.now) \/ IpBlocked(x.ipb, x.ident, x.now)
         THEN Out(x, Resp(x, "RateLimited", 429, "recheck",
                          RecheckBlockedUntil(x), "-", "pin"))
         ELSE Open(PinReset(x), "pin")
    ELSE WrongPin(x)

\* app.py:794-986: a PIN is mandatory
PinPath(x) ==
    IF ~DataTruthy(x.r.body) \/ x.r.body.pt = "absent"
    THEN Out(x, Resp(x, "PinRequired", 400, "pin_required", None, "-", "pin"))
    ELSE IF ~validate_pin_input(x.r.body)[1]
    THEN LET y == CountFailure(x)
         IN  Out(y, Resp(y, "InvalidFormat", 400, "invalid_format", None, "-", "pin"))
    ELSE IF MatchUser(validate_pin_input(x.r.body)[2]) # ""
    THEN IF SessionBlocked(x.sb, x.sid, x.now) \/ IpBlocked(x.ipb, x.ident, x.now)
         THEN Out(x, Resp(x, "RateLimited", 429, "recheck",
                          RecheckBlockedUntil(x), "-", "pin"))
         ELSE Open(PinReset(x), "pin")
    ELSE WrongPin(x)

\* app.py:619-692: the body is read; a federated session may open without a PIN
AuthPath(x) ==
    IF x.r.body.kind = "array"
    THEN \* data.get raises AttributeError: app.py:1035-1051
         Out(x, Resp(x, "InternalError", 500, "exception", None, "-", "-"))
    ELSE IF /\ ~PinTruthy(x.r.body)
            /\ x.oidc_auth
            /\ OidcUserAllowed(cfg.oidc_user_group, x.ck.oidc_groups)
            /\ ~cfg.require_pin_for_oidc
    THEN IF SessionBlocked(x.sb, x.sid, x.now) \/ IpBlocked(x.ipb, x.ident, x.now)
         THEN Out(x, Resp(x, "RateLimited", 429, "recheck",
                          RecheckBlockedUntil(x), "-", "oidc"))
         ELSE Open(OidcReset(x), "oidc")
    ELSE PinPath(x)

\* app.py:597-617: the federated session and its expiry
OidcSession(x) ==
    LET auth0 == oauth /\ x.ck.oidc_authenticated
        expired == [x EXCEPT !.oidc_auth = FALSE,
                             !.ck.oidc_authenticated = FALSE,
                             !.ck.oidc_user = None,
                             !.ck.oidc_groups = {},
                             !.ck.oidc_exp = None]
        \* `not oidc_exp or ...`: time.time() is read only if an expiry is stored
        reads == IF x.ck.oidc_exp = None THEN {x.t} ELSE Reads(x)
    IN  IF auth0
        THEN UNION { IF OidcExpired(x.ck.oidc_exp, tE)
                     THEN AuthPath([expired EXCEPT !.t = tE])
                     ELSE AuthPath([x EXCEPT !.t = tE, !.oidc_auth = TRUE]) :
                     tE \in reads }
        ELSE AuthPath(x)

\* Fault: a request turned away on an in-memory block starts the block anew
MemoryBlocksRenewed(x) ==
    IF SessionBlocked(x.sb, x.sid, x.now)
    THEN LET y == [x EXCEPT !.sb[x.sid] = x.now + BLOCK_TIME]
         IN  Out(y, Resp(y, "RateLimited", 429, "session", y.sb[y.sid], "-", "-"))
    ELSE IF IpBlocked(x.ipb, x.ident, x.now)
    THEN LET y == [x EXCEPT !.ipb[x.ident] = x.now + BLOCK_TIME]
         IN  Out(y, Resp(y, "RateLimited", 429, "ip", y.ipb[y.ident], "-", "-"))
    ELSE OidcSession(x)

\* Fault: a session block that has run out takes the session's counter with it
MemoryBlocksExpiryResets(x) ==
    IF SessionBlocked(x.sb, x.sid, x.now)
    THEN Out(x, Resp(x, "RateLimited", 429, "session", x.sb[x.sid], "-", "-"))
    ELSE IF IpBlocked(x.ipb, x.ident, x.now)
    THEN Out(x, Resp(x, "RateLimited", 429, "ip", x.ipb[x.ident], "-", "-"))
    ELSE OidcSession([x EXCEPT !.sf[x.sid] = IF x.sb[x.sid] # None THEN 0 ELSE @])

\* Fault: a request turned away on an in-memory block is counted as a failure
MemoryBlocksCounted(x) ==
    IF SessionBlocked(x.sb, x.sid, x.now)
    THEN LET y == CountFailure(x)
         IN  Out(y, Resp(y, "RateLimited", 429, "session", y.sb[y.sid], "-", "-"))
    ELSE IF IpBlocked(x.ipb, x.ident, x.now)
    THEN LET y == CountFailure(x)
         IN  Out(y, Resp(y, "RateLimited", 429, "ip", y.ipb[y.ident], "-", "-"))
    ELSE OidcSession(x)

\* app.py:546-595: the in-memory blocks
MemoryBlocks(x) ==
    IF SessionBlocked(x.sb, x.sid, x.now)
    THEN Out(x, Resp(x, "RateLimited", 429, "session", x.sb[x.sid], "-", "-"))
    ELSE IF IpBlocked(x.ipb, x.ident, x.now)
    THEN Out(x, Resp(x, "RateLimited", 429, "ip", x.ipb[x.ident], "-", "-"))
    ELSE OidcSession(x)

\* Fault: the persisted mirror is not consulted
PersistedBlockSkipped(x) == MemoryBlocks(x)

\* app.py:521-544: the block persisted in the signed cookie
PersistedBlock(x) ==
    IF x.ck.blocked_until_ts # None
    THEN UNION { LET y == [x EXCEPT !.t = tC] IN
                 IF CookieBlocked(y.ck, tC)
                 THEN Out(y, Resp(y, "RateLimited", 429, "cookie",
                                  y.ck.blocked_until_ts, "-", "-"))
                 ELSE MemoryBlocks(y) :
                 tC \in Reads(x) }
    ELSE MemoryBlocks(x)

\* app.py:502-519
GlobalLimit(x) ==
    UNION { LET g == check_global_rate_limit(x.gfa, x.glr, tG)
                y == [x EXCEPT !.t = tG, !.gfa = g.gfa, !.glr = g.glr]
            IN  IF ~g.allowed
                THEN Out(y, Resp(y, "RateLimited", 429, "global", None, "-", "-"))
                ELSE PersistedBlock(y) :
            tG \in Reads(x) }

\* A request: the client and how it uses its cookie jar, the address it comes
\* from, its headers and its body
Request(c, mode, ip, h, body) ==
    [c |-> c, mode |-> mode, ip |-> ip, h |-> h, body |-> body]

\* The session the request carries
SentCookie(r) == IF r.mode = "jar" THEN cookie[r.c] ELSE EmptyCookie

\* app.py:482-500: the outcomes of the handler on request r
open_door(r) ==
    LET ck0 == SentCookie(r)
        new == ck0.sid = None
        x == [ r |-> r,
               sid |-> IF new THEN next_sid ELSE ck0.sid,
               nsid |-> IF new THEN next_sid + 1 ELSE next_sid,
               ident |-> Identifier(r.ip, r.h),
               now |-> clock, t |-> clock,
               ck |-> [ck0 EXCEPT !.sid = IF new THEN next_sid ELSE ck0.sid],
               ipf |-> ip_failed_attempts, ipb |-> ip_blocked_until,
               sf |-> session_failed_attempts, sb |-> session_blocked_until,
               gfa |-> global_failed_attempts, glr |-> global_last_reset,
               oidc_auth |-> FALSE, delay |-> 0, remaining |-> None ]
    IN  IF is_request_suspicious(r.h)
        THEN Out(x, Resp(x, "Suspicious", 403, "suspicious", None, "-", "-"))
        ELSE GlobalLimit(x)

\* The handler runs of the model: a new session needs a session id the tables
\* have room for, and no counter is taken beyond MaxFail
Steps(reqs) ==
    UNION { { <<r, o>> : o \in { o \in open_door(r) :
                                   /\ o.x.ipf[o.x.ident] <= MaxFail
                                   /\ o.x.sf[o.x.sid] <= MaxFail } } :
            r \in { r \in reqs : SentCookie(r).sid = None => next_sid <= MaxSids } }

\* One run of the handler: the tables are left as the run wrote them and the
\* session is saved into the cookie of the response
Commit(r, o) ==
    /\ clock' = o.x.t
    /\ ip_failed_attempts' = o.x.ipf
    /\ ip_blocked_until' = o.x.ipb
    /\ session_failed_attempts' = o.x.sf
    /\ session_blocked_until' = o.x.sb
    /\ global_failed_attempts' = o.x.gfa
    /\ global_last_reset' = o.x.glr
    /\ cookie' = IF r.mode = "jar" THEN [cookie EXCEPT ![r.c] = o.x.ck] ELSE cookie
    /\ next_sid' = o.x.nsid
    /\ last' = [op |-> "open_door", body |-> r.body, verdict |-> o.resp.verdict,
                why |-> o.resp.why, path |-> o.resp.path]
    /\ UNCHANGED <<oauth, cfg, fn_arg, fn_ret, thr>>

-----------------------------------------------------------------------------
(* The OIDC handshake (app.py:1060-1204) *)

\* A handler other than /open-door answers
Answer(op, verdict) == [NoLast EXCEPT !.op = op, !.verdict = verdict]

\* app.py:1060-1078.  secrets.token_hex gives a value the session did not hold
login_redirect(c) ==
    /\ oauth
    /\ cookie' = [cookie EXCEPT ![c].oidc_state = IF @ = 1 THEN 2 ELSE 1,
                                ![c].oidc_nonce = IF @ = 1 THEN 2 ELSE 1]
    /\ last' = Answer("login", "Redirect")
    /\ UNCHANGED <<clock, ip_failed_attempts, ip_blocked_until, session_failed_attempts,
                   session_blocked_until, global_failed_attempts, global_last_reset,
                   oauth, cfg, next_sid, fn_arg, fn_ret, thr>>

\* What the identity provider sends back: the state parameter, whether the
\* token exchange succeeds, and the claims of the ID token
Token(state, exchange, nonce, sig, aud, iss, exp, nbf, groups) ==
    [ state |-> state, exchange |-> exchange, nonce |-> nonce, sig |-> sig,
      aud |-> aud, iss |-> iss, exp |-> exp, nbf |-> nbf, groups |-> groups ]

\* app.py:1137-1152: exp and nbf against the clock, with the leeway
TokenTimeValid(tok, now) ==
    /\ ~(tok.exp # None /\ tok.exp + Leeway < now)
    /\ ~(tok.nbf # None /\ tok.nbf - Leeway > now)

\* Fault: a token without groups is not turned away
GroupCheckLax(groups) ==
    IF cfg.oidc_admin_group # "" \/ cfg.oidc_user_group # ""
    THEN IF cfg.oidc_user_group # "" /\ cfg.oidc_user_group \notin groups
         THEN <<FALSE, FALSE>>
         ELSE <<TRUE, cfg.oidc_admin_group # "" /\ cfg.oidc_admin_group \in groups>>
    ELSE <<TRUE, FALSE>>

\* app.py:1169-1186: <<accepted, is_admin>>
GroupCheck(groups) ==
    IF cfg.oidc_admin_group # "" \/ cfg.oidc_user_group # ""
    THEN IF groups = {} THEN <<FALSE, FALSE>>
         ELSE IF cfg.oidc_user_group # "" /\ cfg.oidc_user_group \notin groups
              THEN <<FALSE, FALSE>>
              ELSE <<TRUE, cfg.oidc_admin_group # "" /\ cfg.oidc_admin_group \in groups>>
    ELSE <<TRUE, FALSE>>

\* Fault: the stored state is read, not removed
PopStateKeeps(ck) == ck

\* app.py:1089: session.pop("oidc_state", None)
PopState(ck) == [ck EXCEPT !.oidc_state = None]

\* app.py:1082-1204: what the callback answers on the session ck0 and the
\* token tok at time now: the session it leaves, the verdict, the check that
\* failed, and whether authorize_access_token was called.  Every abort is
\* answered 401 (app.py:1202-1204)
Callback(ck0, tok, now) ==
    LET ck1 == PopState(ck0)
        ck2 == [ck1 EXCEPT !.oidc_nonce = None]
        gc == GroupCheck(tok.groups)
        ck4 == [EmptyCookie EXCEPT !.oidc_authenticated = TRUE,
                                   !.oidc_user = 1,
                                   !.oidc_groups = tok.groups,
                                   !.oidc_exp = tok.exp,
                                   !.admin_authenticated = gc[2],
                                   !.admin_login_time = IF gc[2] THEN now ELSE None,
                                   !.admin_user = IF gc[2] THEN 1 ELSE None]
        Reject(ck, why, ex) ==
            [ck |-> ck, verdict |-> "Rejected", why |-> why, exchanged |-> ex]
    IN  IF tok.state # ck0.oidc_state THEN Reject(ck1, "state", FALSE)
        ELSE IF ~tok.exchange THEN Reject(ck1, "exchange", TRUE)
        ELSE IF tok.nonce # ck1.oidc_nonce THEN Reject(ck2, "nonce", TRUE)
        ELSE IF ~tok.sig THEN Reject(ck2, "signature", TRUE)
        ELSE IF ~tok.aud THEN Reject(ck2, "audience", TRUE)
        ELSE IF tok.iss = "bad" THEN Reject(ck2, "issuer", TRUE)
        ELSE IF ~TokenTimeValid(tok, now) THEN Reject(ck2, "time", TRUE)
        ELSE IF ~gc[1] THEN Reject(EmptyCookie, "groups", TRUE)
        ELSE [ck |-> ck4, verdict |-> "Authenticated", why |-> "-", exchanged |-> TRUE]

\* app.py:1081-1204: the session is saved as the handler left it
oidc_callback(c, tok) ==
    LET o == Callback(cookie[c], tok, clock) IN
    /\ oauth
    /\ cookie' = [cookie EXCEPT ![c] = o.ck]
    /\ last' = [Answer("oidc_callback", o.verdict) EXCEPT !.why = o.why]
    /\ UNCHANGED <<clock, ip_failed_attempts, ip_blocked_until, session_failed_attempts,
                   session_blocked_until, global_failed_attempts, global_last_reset,
                   oauth, cfg, next_sid, fn_arg, fn_ret, thr>>

\* app.py:1646-1690: the session is cleared first, with OIDC enabled or not;
\* the answer is a redirect, or 500 when the provider's logout endpoint cannot
\* be found
oidc_logout(c, found) ==
    /\ cookie' = [cookie EXCEPT ![c] = EmptyCookie]
    /\ last' = Answer("oidc_logout", IF ~oauth \/ found THEN "Redirect" ELSE "Error")
    /\ UNCHANGED <<clock, ip_failed_attempts, ip_blocked_until, session_failed_attempts,
                   session_blocked_until, global_failed_attempts, global_last_reset,
                   oauth, cfg, next_sid, fn_arg, fn_ret, thr>>

-----------------------------------------------------------------------------
(* /admin/auth and /admin/logout (app.py:1206-1325) *)

\* A request to /admin/auth: the client, how it uses its cookie jar, and the
\* password of the JSON body after strip()
AdminRequest(c, mode, password) == [c |-> c, mode |-> mode, password |-> password]

AdminResp(verdict, code, why) == [verdict |-> verdict, code |-> code, why |-> why]

\* Fault: the block check of admin_auth is left out
AdminBlockedNever(x) == FALSE

\* app.py:1219-1222
AdminBlocked(x) == SessionBlocked(x.sb, x.sid, x.now)

\* Fault: a wrong password is answered without being counted
AdminFailureUncounted(x0) == Out(x0, AdminResp("AdminDenied", 403, "remaining"))

\* app.py:1279-1306: a wrong password.  The handler sleeps before it looks at
\* the threshold; the block it sets counts from the time read at the start
AdminFailure(x0) ==
    LET x == [x0 EXCEPT !.sf[x0.sid] = @ + 1]
        d == get_delay_seconds(x.sf[x.sid])
    IN  UNION { LET y == [x EXCEPT !.t = tS, !.delay = d] IN
                IF SessionThreshold(y.sf[y.sid])
                THEN Out([y EXCEPT !.sb[y.sid] = y.now + BLOCK_TIME],
                         AdminResp("AdminDenied", 403, "session_blocked"))
                ELSE Out(y, AdminResp("AdminDenied", 403, "remaining")) :
                tS \in IF d > 0 THEN Reads(x) ELSE {x.t} }

\* app.py:1207-1306: the outcomes of the handler on request r
admin_auth(r) ==
    LET ck0 == SentCookie(r)
        new == ck0.sid = None
        x == [ r |-> r,
               sid |-> IF new THEN next_sid ELSE ck0.sid,
               nsid |-> IF new THEN next_sid + 1 ELSE next_sid,
               now |-> clock, t |-> clock,
               ck |-> [ck0 EXCEPT !.sid = IF new THEN next_sid ELSE ck0.sid],
               sf |-> session_failed_attempts, sb |-> session_blocked_until,
               delay |-> 0 ]
    IN  IF AdminBlocked(x)
        THEN Out(x, AdminResp("RateLimited", 429, "session"))
        ELSE IF r.password = admin_password
        THEN Out([x EXCEPT !.sf[x.sid] = 0, !.sb[x.sid] = None,
                           !.ck.admin_authenticated = TRUE,
                           !.ck.admin_login_time = x.now],
                 AdminResp("AdminGranted", 200, "password"))
        ELSE AdminFailure(x)

\* The runs of admin_auth of the model, bounded as those of open_door
AdminSteps(reqs) ==
    UNION { { <<r, o>> : o \in { o \in admin_auth(r) : o.x.sf[o.x.sid] <= MaxFail } } :
            r \in { r \in reqs : SentCookie(r).sid = None => next_sid <= MaxSids } }

\* One run of admin_auth
CommitAdmin(r, o) ==
    /\ clock' = o.x.t
    /\ session_failed_attempts' = o.x.sf
    /\ session_blocked_until' = o.x.sb
    /\ cookie' = IF r.mode = "jar" THEN [cookie EXCEPT ![r.c] = o.x.ck] ELSE cookie
    /\ next_sid' = o.x.nsid
    /\ last' = [Answer("admin_auth", o.resp.verdict) EXCEPT !.why = o.resp.why]
    /\ UNCHANGED <<ip_failed_attempts, ip_blocked_until, global_failed_attempts,
                   global_last_reset, oauth, cfg, fn_arg, fn_ret, thr>>

\* app.py:1319-1325
admin_logout(c) ==
    /\ cookie' = [cookie EXCEPT ![c].admin_authenticated = FALSE,
                                ![c].admin_login_time = None]
    /\ last' = Answer("admin_logout", "LoggedOut")
    /\ UNCHANGED <<clock, ip_failed_attempts, ip_blocked_until, session_failed_attempts,
                   session_blocked_until, global_failed_attempts, global_last_reset,
                   oauth, cfg, next_sid, fn_arg, fn_ret, thr>>

-----------------------------------------------------------------------------
(* The process restarts (app.py:170-201, 264-269): the configuration is    *)
(* read again, the in-memory tables start empty, the signed cookies that   *)
(* the clients hold stay valid (FLASK_SECRET_KEY, app.py:86-88)            *)

restart(newcfg, newoauth) ==
    /\ cfg' = newcfg
    /\ oauth' = newoauth
    /\ ip_failed_attempts' = [i \in Idents |-> 0]
    /\ ip_blocked_until' = [i \in Idents |-> None]
    /\ session_failed_attempts' = [s \in Sids |-> 0]
    /\ session_blocked_until' = [s \in Sids |-> None]
    /\ global_failed_attempts' = 0
    /\ global_last_reset' = clock
    /\ last' = Answer("restart", "-")
    /\ UNCHANGED <<clock, cookie, next_sid, fn_arg, fn_ret, thr>>

-----------------------------------------------------------------------------
(* Specification of the PIN engine: one browser that keeps or drops its    *)
(* cookie, so that several sessions share one IP key; it sends no PIN, a   *)
(* right one or a wrong one                                                *)

CoreHeaders == {h \in Headers : h.ualen \in {10, 31}}
CoreBodies ==
    { Body("none", "absent", <<>>, 0),
      Body("dict", "str", <<"1", "2", "3", "4">>, 0),
      Body("dict", "str", <<"9", "9", "9", "9">>, 0) }
CoreRequests ==
    { Request("c1", mode, ip, h, body) :
        mode \in CookieModes, ip \in IPs, h \in CoreHeaders, body \in CoreBodies }

OpenDoor == \E s \in Steps(CoreRequests) : Commit(s[1], s[2])

Next ==
    \/ Tick
    \/ OpenDoor

Spec == Init /\ [][Next]_vars

-----------------------------------------------------------------------------
(* Specification of the federated path: one browser with a cookie jar that *)
(* logs in through the identity provider and uses the door with or without *)
(* a PIN                                                                   *)

OidcHeader == CHOOSE h \in Headers : h.ualen = 31
OidcHeaders == {h \in Headers : h.ualen \in {10, 31}}
OidcBodies ==
    { Body("none", "absent", <<>>, 0),
      Body("dict", "str", <<>>, 0),
      Body("dict", "str", <<"1", "2", "3", "4">>, 0),
      Body("dict", "str", <<"9", "9", "9", "9">>, 0) }
OidcRequests ==
    { Request("c1", "jar", ip, h, body) :
        ip \in IPs, h \in OidcHeaders, body \in OidcBodies }

\* The identity provider answers the pending login with a well-formed token:
\* with or without exp, for a member of the user group or of another group
OidcTokens ==
    { Token(cookie["c1"].oidc_state, TRUE, cookie["c1"].oidc_nonce, TRUE, TRUE, "ok",
            exp, None, g) :
        exp \in {None, MaxTime - 1}, g \in {{"door-users"}, {"door-guests"}} }

\* Every request the browser could send in a state of this specification,
\* also with a User-Agent of nine characters and with one that spells a
\* signature in capitals
ShortHeader == [ua |-> "Mozilla/5", ualen |-> 9, botsig |-> FALSE, lang |-> "en"]
CapitalsHeader == [ua |-> "Mozilla/5.0 (compatible; BOT)", ualen |-> 29, botsig |-> TRUE, lang |-> "en"]
OidcProbes ==
    { Request("c1", "jar", ip, h, body) :
        ip \in IPs, h \in Headers \cup {ShortHeader, CapitalsHeader}, body \in Bodies }

OpenDoorOidc == \E s \in Steps(OidcRequests) : Commit(s[1], s[2])
LoginRedirect == cookie["c1"].oidc_state = None /\ login_redirect("c1")
OidcCallback ==
    cookie["c1"].oidc_state # None /\ \E tok \in OidcTokens : oidc_callback("c1", tok)

NextOidc ==
    \/ Tick
    \/ OpenDoorOidc
    \/ LoginRedirect
    \/ OidcCallback

SpecOidc == Init /\ [][NextOidc]_vars

-----------------------------------------------------------------------------
(* Specification of the federated policy: the same browser, sending no PIN,*)
(* a right or a wrong one, while the deployment may be restarted with     *)
(* another configuration                                                   *)

PolicyConfigs == {c \in Configs : ~c.test_mode /\ c.oidc_admin_group = oidc_admin_group}
PolicyBodies ==
    { Body("none", "absent", <<>>, 0),
      Body("dict", "str", <<"1", "2", "3", "4">>, 0),
      Body("dict", "str", <<"9", "9", "9", "9">>, 0) }
PolicyRequests ==
    { Request("c1", "jar", ip, OidcHeader, body) : ip \in IPs, body \in PolicyBodies }

\* Every request the browser could send in a state of this specification
PolicyProbes ==
    { Request("c1", "jar", ip, h, body) : ip \in IPs, h \in Headers, body \in Bodies }

OpenDoorPolicy == \E s \in Steps(PolicyRequests) : Commit(s[1], s[2])
Restart ==
    \E newcfg \in PolicyConfigs, newoauth \in BOOLEAN : restart(newcfg, newoauth)

NextPolicy ==
    \/ Tick
    \/ OpenDoorPolicy
    \/ LoginRedirect
    \/ OidcCallback
    \/ Restart

SpecPolicy == Init /\ [][NextPolicy]_vars

-----------------------------------------------------------------------------
(* Specification of the login handshake: the browser starts logins, the    *)
(* identity provider (or an attacker) sends callbacks with good and bad    *)
(* tokens, the browser uses the door without a PIN, and the deployment may *)
(* be restarted with other group restrictions                              *)

LoginConfigs == {c \in Configs : ~c.test_mode /\ ~c.require_pin_for_oidc}
TokenGroups == {{}, {"door-guests"}, {"door-users"}, {"door-users", "door-admins"}}

\* A token that passes every check that does not depend on the session
GoodToken(state, nonce, exp, groups) ==
    Token(state, TRUE, nonce, TRUE, TRUE, "ok", exp, None, groups)

\* The callbacks that may arrive: a good token, or one with a single fault
\* (failed exchange, signature, audience, issuer, not yet valid), with any
\* state and nonce, with or without exp
LoginTokens ==
    UNION { { g, [g EXCEPT !.exchange = FALSE], [g EXCEPT !.sig = FALSE],
              [g EXCEPT !.aud = FALSE], [g EXCEPT !.iss = "bad"],
              [g EXCEPT !.nbf = MaxTime + Leeway + 1] } :
            g \in { GoodToken(st, n, e, gr) :
                      st \in {None, 1, 2}, n \in {None, 1, 2},
                      e \in {None, 1, MaxTime}, gr \in TokenGroups } }

\* The callbacks that do arrive: the state and the nonce are the pending ones
\* or stale ones; the token is good, or its exchange or its signature fails
CallbackTokens ==
    UNION { { [g EXCEPT !.state = st, !.nonce = n] :
                g \in { GoodToken(None, None, e, gr) :
                          e \in {None, 1, MaxTime}, gr \in TokenGroups }
                      \cup { [GoodToken(None, None, MaxTime, {"door-users"})
                                EXCEPT !.exchange = FALSE],
                             [GoodToken(None, None, MaxTime, {"door-users"})
                                EXCEPT !.sig = FALSE] } } :
            st \in {cookie["c1"].oidc_state, 2}, n \in {cookie["c1"].oidc_nonce, 2} }

LoginBodies == {Body("none", "absent", <<>>, 0), Body("array", "absent", <<>>, 0)}
LoginRequests ==
    { Request("c1", "jar", ip, OidcHeader, body) : ip \in IPs, body \in LoginBodies }

\* Every request the browser could send in a state of this specification
LoginProbes ==
    { Request("c1", "jar", ip, h, body) : ip \in IPs, h \in Headers, body \in Bodies }

OpenDoorLogin == \E s \in Steps(LoginRequests) : Commit(s[1], s[2])
LoginCallback == \E tok \in CallbackTokens : oidc_callback("c1", tok)
RestartLogin == \E newcfg \in LoginConfigs : restart(newcfg, TRUE)

NextLogin ==
    \/ Tick
    \/ OpenDoorLogin
    \/ LoginRedirect
    \/ LoginCallback
    \/ RestartLogin

SpecLogin == Init /\ [][NextLogin]_vars

-----------------------------------------------------------------------------
(* Specification of the request payloads: one browser with a cookie jar,   *)
(* logged in through the identity provider or not, sends every kind of     *)
(* body                                                                    *)

InputRequests ==
    { Request("c1", "jar", ip, OidcHeader, body) : ip \in IPs, body \in Bodies }

\* Every request the browser could send in a state of this specification
InputProbes ==
    { Request("c1", "jar", ip, h, body) : ip \in IPs, h \in Headers, body \in Bodies }

OpenDoorInput == \E s \in Steps(InputRequests) : Commit(s[1], s[2])

NextInput ==
    \/ Tick
    \/ OpenDoorInput
    \/ LoginRedirect
    \/ OidcCallback

SpecInput == Init /\ [][NextInput]_vars

-----------------------------------------------------------------------------
(* Specification of the session: one browser with a cookie jar sends no    *)
(* PIN, a right or a wrong one, logs in through the identity provider and  *)
(* logs out                                                                *)

SessionRequests ==
    { Request("c1", "jar", ip, OidcHeader, body) : ip \in IPs, body \in PolicyBodies }

OpenDoorSession == \E s \in Steps(SessionRequests) : Commit(s[1], s[2])
OidcLogout == \E found \in BOOLEAN : oidc_logout("c1", found)

NextSession ==
    \/ Tick
    \/ OpenDoorSession
    \/ LoginRedirect
    \/ OidcCallback
    \/ OidcLogout

SpecSession == Init /\ [][NextSession]_vars

-----------------------------------------------------------------------------
(* Specification of the admin login: one browser with a cookie jar uses    *)
(* the door with no PIN, a right or a wrong one, and sends passwords to    *)
(* /admin/auth                                                             *)

AdminRequests == { AdminRequest("c1", "jar", pw) : pw \in Passwords }

\* Every request to /open-door the browser could send in a state of this
\* specification
AdminProbes ==
    { Request("c1", "jar", ip, h, body) : ip \in IPs, h \in Headers, body \in Bodies }

OpenDoorAdmin == \E s \in Steps(SessionRequests) : Commit(s[1], s[2])
AdminAuth == \E s \in AdminSteps(AdminRequests) : CommitAdmin(s[1], s[2])
AdminLogout == cookie["c1"].admin_authenticated /\ admin_logout("c1")

NextAdmin ==
    \/ Tick
    \/ OpenDoorAdmin
    \/ AdminAuth
    \/ AdminLogout

SpecAdmin == Init /\ [][NextAdmin]_vars

-----------------------------------------------------------------------------
(* Specification of the progressive delay: get_delay_seconds is called on  *)
(* an attempt count                                                        *)

DelayArgs == (0 - MaxArg)..MaxArg

InitDelay ==
    /\ clock = 1
    /\ ip_failed_attempts = [i \in Idents |-> 0]
    /\ ip_blocked_until = [i \in Idents |-> None]
    /\ session_failed_attempts = [s \in Sids |-> 0]
    /\ session_blocked_until = [s \in Sids |-> None]
    /\ global_failed_attempts = 0
    /\ global_last_reset = 1
    /\ oauth = TRUE
    /\ cfg = [oidc_admin_group |-> oidc_admin_group, oidc_user_group |-> "door-users",
              require_pin_for_oidc |-> FALSE, test_mode |-> FALSE]
    /\ cookie = [c \in Clients |-> EmptyCookie]
    /\ next_sid = 1
    /\ last = NoLast
    /\ fn_arg \in DelayArgs
    /\ fn_ret = <<>>
    /\ thr = [t \in Threads |-> IdleThread]

CallDelay ==
    /\ fn_ret = <<>>
    /\ fn_ret' = <<get_delay_seconds(fn_arg)>>
    /\ UNCHANGED <<clock, ip_failed_attempts, ip_blocked_until, session_failed_attempts,
                   session_blocked_until, global_failed_attempts, global_last_reset,
                   oauth, cfg, cookie, next_sid, last, fn_arg, thr>>

NextDelay == CallDelay

SpecDelay == InitDelay /\ [][NextDelay]_vars

-----------------------------------------------------------------------------
(* Specification of the PIN format: validate_pin_input is called on a      *)
(* value of data["pin"]: a string of up to MaxPinLen characters, a number  *)
(* or null                                                                 *)

PinChars == {"1", "U+0663", "a"}
PinStrings == UNION { [1..n -> PinChars] : n \in 0..MaxPinLen }
ValidateArgs ==
    { Body("dict", "str", ps, 0) : ps \in PinStrings }
    \cup { Body("dict", "int", <<>>, 1234), Body("dict", "null", <<>>, 0) }

InitValidate ==
    /\ clock = 1
    /\ ip_failed_attempts = [i \in Idents |-> 0]
    /\ ip_blocked_until = [i \in Idents |-> None]
    /\ session_failed_attempts = [s \in Sids |-> 0]
    /\ session_blocked_until = [s \in Sids |-> None]
    /\ global_failed_attempts = 0
    /\ global_last_reset = 1
    /\ oauth = TRUE
    /\ cfg = [oidc_admin_group |-> oidc_admin_group, oidc_user_group |-> "door-users",
              require_pin_for_oidc |-> FALSE, test_mode |-> FALSE]
    /\ cookie = [c \in Clients |-> EmptyCookie]
    /\ next_sid = 1
    /\ last = NoLast
    /\ fn_arg \in ValidateArgs
    /\ fn_ret = <<>>
    /\ thr = [t \in Threads |-> IdleThread]

CallValidate ==
    /\ fn_ret = <<>>
    /\ fn_ret' = <<validate_pin_input(fn_arg)>>
    /\ UNCHANGED <<clock, ip_failed_attempts, ip_blocked_until, session_failed_attempts,
                   session_blocked_until, global_failed_attempts, global_last_reset,
                   oauth, cfg, cookie, next_sid, last, fn_arg, thr>>

NextValidate == CallValidate

SpecValidate == InitValidate /\ [][NextValidate]_vars

-----------------------------------------------------------------------------
(* Specification of the composite key: browsers at one address that send   *)
(* two different User-Agent and Accept-Language headers, with or without   *)
(* the session cookie, and a right or a wrong PIN                          *)

FingerprintHeaders == {h \in Headers : h.ualen >= 10 /\ ~h.botsig}
FingerprintRequests ==
    { Request("c1", mode, ip, h, body) :
        mode \in CookieModes, ip \in IPs, h \in FingerprintHeaders, body \in CoreBodies }

\* Every request that could arrive in a state of this specification
FingerprintProbes ==
    { Request("c1", mode, ip, h, body) :
        mode \in CookieModes, ip \in IPs, h \in Headers, body \in Bodies }

OpenDoorFingerprint == \E s \in Steps(FingerprintRequests) : Commit(s[1], s[2])

NextFingerprint ==
    \/ Tick
    \/ OpenDoorFingerprint

SpecFingerprint == Init /\ [][NextFingerprint]_vars

-----------------------------------------------------------------------------
(* Specification of concurrent runs of /open-door: two threads run the PIN *)
(* path of the handler statement by statement on the shared tables.  The   *)
(* requests come from sessions 1 and 2 of one IP key with unsuspicious     *)
(* headers, carry the session cookie without a persisted block and a right *)
(* or a wrong well-formed PIN; the session a run saves is local to it.     *)

MaxRuns == 2
RaceSids == {1, 2}
RaceIdent == Identifier(CHOOSE ip \in IPs : TRUE, OidcHeader)
Other(t) == CHOOSE u \in Threads : u # t

Goto(t, pc) == thr' = [thr EXCEPT ![t].pc = pc]
Return(t, verdict, why) ==
    thr' = [thr EXCEPT ![t].pc = "done", ![t].verdict = verdict, ![t].why = why]

\* app.py:1009-1013: the handler answers with the attempts that remain, read
\* from the shared tables as they are when it gets there
ReturnRemaining(t) ==
    thr' = [thr EXCEPT ![t].pc = "done", ![t].verdict = "InvalidPin", ![t].why = "delayed",
                       ![t].remaining =
                           RemainingAttempts([ sid |-> thr[t].sid, ident |-> RaceIdent,
                                               sf |-> session_failed_attempts,
                                               ipf |-> ip_failed_attempts ])]

\* app.py:484-500: a request arrives; the handler identifies it and reads the clock
Begin(t, sid, ok) ==
    /\ thr[t].pc \in {"idle", "done"}
    /\ thr[t].n < MaxRuns
    /\ thr' = [thr EXCEPT ![t] =
                 [ pc |-> "global", sid |-> sid, ok |-> ok, now |-> clock,
                   verdict |-> "-", why |-> "-", n |-> thr[t].n + 1,
                   peer_n |-> IF thr[Other(t)].pc = "sleep" THEN thr[Other(t)].n ELSE 0,
                   tmp |-> 0, remaining |-> 0 ]]
    /\ UNCHANGED <<clock, ip_failed_attempts, ip_blocked_until, session_failed_attempts,
                   session_blocked_until, global_failed_attempts, global_last_reset,
                   oauth, cfg, cookie, next_sid, last, fn_arg, fn_ret>>

\* app.py:502-519
GlobalStep(t) ==
    /\ thr[t].pc = "global"
    /\ LET g == check_global_rate_limit(global_failed_attempts, global_last_reset, clock)
       IN  /\ global_failed_attempts' = g.gfa
           /\ global_last_reset' = g.glr
           /\ IF g.allowed THEN Goto(t, "session_block")
              ELSE Return(t, "RateLimited", "global")
    /\ UNCHANGED <<clock, ip_failed_attempts, ip_blocked_until, session_failed_attempts,
                   session_blocked_until, oauth, cfg, cookie, next_sid, last, fn_arg, fn_ret>>

\* app.py:546-595: the pre-checks of the in-memory blocks
BlockStep(t) ==
    /\ thr[t].pc = "session_block"
    /\ IF SessionBlocked(session_blocked_until, thr[t].sid, thr[t].now)
       THEN Return(t, "RateLimited", "session")
       ELSE IF IpBlocked(ip_blocked_until, RaceIdent, thr[t].now)
       THEN Return(t, "RateLimited", "ip")
       ELSE Goto(t, IF thr[t].ok THEN "recheck" ELSE "count")
    /\ UNCHANGED <<clock, ip_failed_attempts, ip_blocked_until, session_failed_attempts,
                   session_blocked_until, global_failed_attempts, global_last_reset,
                   oauth, cfg, cookie, next_sid, last, fn_arg, fn_ret>>

\* app.py:828-877: the PIN matched; the blocks are looked at again
RecheckStep(t) ==
    /\ thr[t].pc = "recheck"
    /\ IF \/ SessionBlocked(session_blocked_until, thr[t].sid, thr[t].now)
          \/ IpBlocked(ip_blocked_until, RaceIdent, thr[t].now)
       THEN Return(t, "RateLimited", "recheck")
       ELSE Goto(t, "reset_counters")
    /\ UNCHANGED <<clock, ip_failed_attempts, ip_blocked_until, session_failed_attempts,
                   session_blocked_until, global_failed_attempts, global_last_reset,
                   oauth, cfg, cookie, next_sid, last, fn_arg, fn_ret>>

\* app.py:880-881
ResetCountersStep(t) ==
    /\ thr[t].pc = "reset_counters"
    /\ ip_failed_attempts' = [ip_failed_attempts EXCEPT ![RaceIdent] = 0]
    /\ session_failed_attempts' = [session_failed_attempts EXCEPT ![thr[t].sid] = 0]
    /\ Goto(t, "delete_blocks")
    /\ UNCHANGED <<clock, ip_blocked_until, session_blocked_until,
                   global_failed_attempts, global_last_reset,
                   oauth, cfg, cookie, next_sid, last, fn_arg, fn_ret>>

\* app.py:882-886, then the door is opened (app.py:889-986)
DeleteBlocksStep(t) ==
    /\ thr[t].pc = "delete_blocks"
    /\ ip_blocked_until' = [ip_blocked_until EXCEPT ![RaceIdent] = None]
    /\ session_blocked_until' = [session_blocked_until EXCEPT ![thr[t].sid] = None]
    /\ Return(t, "Granted", "opened")
    /\ UNCHANGED <<clock, ip_failed_attempts, session_failed_attempts,
                   global_failed_attempts, global_last_reset,
                   oauth, cfg, cookie, next_sid, last, fn_arg, fn_ret>>

\* app.py:989-991: the PIN matched no user.  Each `+= 1` is a load of the
\* counter and a store of the loaded value plus one; nothing keeps another
\* thread from running between the two
Load(t, value, pc) == thr' = [thr EXCEPT ![t].tmp = value, ![t].pc = pc]
Stored(t, pc) == thr' = [thr EXCEPT ![t].tmp = 0, ![t].pc = pc]

\* app.py:989
LoadIp(t) ==
    /\ thr[t].pc = "count"
    /\ Load(t, ip_failed_attempts[RaceIdent], "store_ip")
    /\ UNCHANGED <<clock, ip_failed_attempts, ip_blocked_until, session_failed_attempts,
                   session_blocked_until, global_failed_attempts, global_last_reset,
                   oauth, cfg, cookie, next_sid, last, fn_arg, fn_ret>>
StoreIp(t) ==
    /\ thr[t].pc = "store_ip"
    /\ ip_failed_attempts' = [ip_failed_attempts EXCEPT ![RaceIdent] = thr[t].tmp + 1]
    /\ Stored(t, "load_session")
    /\ UNCHANGED <<clock, ip_blocked_until, session_failed_attempts,
                   session_blocked_until, global_failed_attempts, global_last_reset,
                   oauth, cfg, cookie, next_sid, last, fn_arg, fn_ret>>

\* app.py:990
LoadSession(t) ==
    /\ thr[t].pc = "load_session"
    /\ Load(t, session_failed_attempts[thr[t].sid], "store_session")
    /\ UNCHANGED <<clock, ip_failed_attempts, ip_blocked_until, session_failed_attempts,
                   session_blocked_until, global_failed_attempts, global_last_reset,
                   oauth, cfg, cookie, next_sid, last, fn_arg, fn_ret>>
StoreSession(t) ==
    /\ thr[t].pc = "store_session"
    /\ session_failed_attempts' =
           [session_failed_attempts EXCEPT ![thr[t].sid] = thr[t].tmp + 1]
    /\ Stored(t, "load_global")
    /\ UNCHANGED <<clock, ip_failed_attempts, ip_blocked_until,
                   session_blocked_until, global_failed_attempts, global_last_reset,
                   oauth, cfg, cookie, next_sid, last, fn_arg, fn_ret>>

\* app.py:991
LoadGlobal(t) ==
    /\ thr[t].pc = "load_global"
    /\ Load(t, global_failed_attempts, "store_global")
    /\ UNCHANGED <<clock, ip_failed_attempts, ip_blocked_until, session_failed_attempts,
                   session_blocked_until, global_failed_attempts, global_last_reset,
                   oauth, cfg, cookie, next_sid, last, fn_arg, fn_ret>>
StoreGlobal(t) ==
    /\ thr[t].pc = "store_global"
    /\ global_failed_attempts' = thr[t].tmp + 1
    /\ Stored(t, "threshold")
    /\ UNCHANGED <<clock, ip_failed_attempts, ip_blocked_until, session_failed_attempts,
                   session_blocked_until, global_last_reset,
                   oauth, cfg, cookie, next_sid, last, fn_arg, fn_ret>>

\* app.py:994-1008: a block is set, or the handler goes to sleep
ThresholdStep(t) ==
    /\ thr[t].pc = "threshold"
    /\ IF SessionThreshold(session_failed_attempts[thr[t].sid])
       THEN /\ session_blocked_until' =
                  [session_blocked_until EXCEPT ![thr[t].sid] = thr[t].now + BLOCK_TIME]
            /\ Return(t, "InvalidPin", "session_blocked")
            /\ UNCHANGED ip_blocked_until
       ELSE IF IpThreshold(ip_failed_attempts[RaceIdent])
       THEN /\ ip_blocked_until' =
                  [ip_blocked_until EXCEPT ![RaceIdent] = thr[t].now + BLOCK_TIME]
            /\ Return(t, "InvalidPin", "ip_blocked")
            /\ UNCHANGED session_blocked_until
       ELSE /\ IF get_delay_seconds(session_failed_attempts[thr[t].sid]) > 0
               THEN Goto(t, "sleep")
               ELSE ReturnRemaining(t)
            /\ UNCHANGED <<ip_blocked_until, session_blocked_until>>
    /\ UNCHANGED <<clock, ip_failed_attempts, session_failed_attempts,
                   global_failed_attempts, global_last_reset,
                   oauth, cfg, cookie, next_sid, last, fn_arg, fn_ret>>

\* Fault: the failure is counted only when the delay is over
WakeCounts(t) ==
    /\ thr[t].pc = "sleep"
    /\ global_failed_attempts' = global_failed_attempts + 1
    /\ ReturnRemaining(t)
    /\ UNCHANGED <<clock, ip_failed_attempts, ip_blocked_until, session_failed_attempts,
                   session_blocked_until, global_last_reset,
                   oauth, cfg, cookie, next_sid, last, fn_arg, fn_ret>>

\* app.py:1008-1033: time.sleep(delay) returns and the handler answers
Wake(t) ==
    /\ thr[t].pc = "sleep"
    /\ ReturnRemaining(t)
    /\ UNCHANGED <<clock, ip_failed_attempts, ip_blocked_until, session_failed_attempts,
                   session_blocked_until, global_failed_attempts, global_last_reset,
                   oauth, cfg, cookie, next_sid, last, fn_arg, fn_ret>>

\* The next statement of the run that thread t is in
ThreadStep(t) ==
    \/ GlobalStep(t)
    \/ BlockStep(t)
    \/ RecheckStep(t)
    \/ ResetCountersStep(t)
    \/ DeleteBlocksStep(t)
    \/ LoadIp(t)
    \/ StoreIp(t)
    \/ LoadSession(t)
    \/ StoreSession(t)
    \/ LoadGlobal(t)
    \/ StoreGlobal(t)
    \/ ThresholdStep(t)
    \/ Wake(t)

Arrive == \E t \in Threads, sid \in RaceSids, ok \in BOOLEAN : Begin(t, sid, ok)
Run == \E t \in Threads : ThreadStep(t)

NextRace ==
    \/ Tick
    \/ Arrive
    \/ Run

SpecRace == Init /\ [][NextRace]_vars

\* The concurrent runs when one attempt is left in the hour's budget: the
\* earlier failures came from callers that have since been granted, which
\* sets their counters back (app.py:879-886) and leaves the global counter
\* as it is
InitBudget ==
    /\ clock = 1
    /\ ip_failed_attempts = [i \in Idents |-> 0]
    /\ ip_blocked_until = [i \in Idents |-> None]
    /\ session_failed_attempts = [s \in Sids |-> 0]
    /\ session_blocked_until = [s \in Sids |-> None]
    /\ global_failed_attempts = MAX_GLOBAL_ATTEMPTS_PER_HOUR - 1
    /\ global_last_reset = 1
    /\ oauth = TRUE
    /\ cfg = [oidc_admin_group |-> oidc_admin_group, oidc_user_group |-> "door-users",
              require_pin_for_oidc |-> FALSE, test_mode |-> FALSE]
    /\ cookie = [c \in Clients |-> EmptyCookie]
    /\ next_sid = 1
    /\ last = NoLast
    /\ fn_arg = 0
    /\ fn_ret = <<>>
    /\ thr = [t \in Threads |-> IdleThread]

SpecBudget == InitBudget /\ [][NextRace]_vars

-----------------------------------------------------------------------------
(* Properties.  A step is a pair <<r, o>> of Steps: a request r handled in *)
(* the current state and one outcome o of the handler on it; o.x is what   *)
(* the handler leaves (o.x.t is its last reading of the clock, o.x.ck the  *)
(* session it saves) and o.resp is the response.                           *)

\* The body carries a well-formed PIN that is the PIN of a user
PresentsMatchingPin(body) ==
    /\ body.kind = "dict" /\ body.pt = "str"
    /\ \E i \in 1..Len(Users) : UserPin[Users[i]] = body.ps

\* The body carries a well-formed PIN (4 to 8 digits) that is no user's PIN
PresentsWrongPin(body) ==
    /\ body.kind = "dict" /\ body.pt = "str"
    /\ Len(body.ps) \in 4..8
    /\ \A i \in 1..Len(body.ps) : body.ps[i] \in DigitChars
    /\ \A i \in 1..Len(Users) : UserPin[Users[i]] # body.ps

\* The body carries a PIN: a non-empty string or a non-zero number
PinSupplied(body) ==
    /\ body.kind = "dict"
    /\ \/ body.pt = "str" /\ body.ps # <<>>
       \/ body.pt = "int" /\ body.pn # 0

\* The session ck is federated-authenticated and its stored expiry has not
\* passed at time t
FederatedSession(ck, t) ==
    oauth /\ ck.oidc_authenticated /\ ck.oidc_exp # None /\ ck.oidc_exp >= t

\* The ends of the caller's blocks (in-memory session block, in-memory IP
\* block, persisted mirror) that are unexpired when the handler returns
ActiveBlockEnds(s) ==
    { e \in { session_blocked_until[s[2].x.sid], ip_blocked_until[s[2].x.ident],
              SentCookie(s[1]).blocked_until_ts } :
        e # None /\ s[2].x.t < e }

\* The authorization succeeded: the handler went on to open the door
Authorized(o) ==
    /\ o.resp.path \in {"pin", "oidc"}
    /\ o.resp.actuator # "-" \/ o.resp.why = "test_mode"

MaxOfSet(S) == CHOOSE m \in S : \A e \in S : e <= m

\* C1 as stated: every request that presents a matching PIN or a valid
\* federated session while a block of the caller is unexpired is answered
\* RateLimited, the actuator is not called, and the block entries and the
\* failure counters stay as they were.
C1_BlockPrecedenceAsStated ==
    \A s \in Steps(OidcRequests) :
        LET r == s[1]  o == s[2]  x == s[2].x IN
        ( /\ ActiveBlockEnds(s) # {}
          /\ PresentsMatchingPin(r.body) \/ FederatedSession(SentCookie(r), x.t) )
        => /\ o.resp.verdict = "RateLimited"
           /\ o.resp.actuator = "-"
           /\ x.sb = session_blocked_until
           /\ x.ipb = ip_blocked_until
           /\ x.ck.blocked_until_ts = SentCookie(r).blocked_until_ts
           /\ x.sf = session_failed_attempts
           /\ x.ipf = ip_failed_attempts
           /\ x.gfa = global_failed_attempts

\* C1, amended: every request that is not suspicious and presents a matching
\* PIN or a valid federated session while a block of the caller is unexpired
\* is answered RateLimited without a call of the actuator; the block entries
\* and the IP and session counters stay as they were, and the global counter
\* stays as it was unless the hourly window has elapsed, in which case the
\* request's global check sets it to zero.
C1_BlockPrecedence ==
    \A s \in Steps(OidcRequests) :
        LET r == s[1]  o == s[2]  x == s[2].x IN
        ( /\ ~is_request_suspicious(r.h)
          /\ ActiveBlockEnds(s) # {}
          /\ PresentsMatchingPin(r.body) \/ FederatedSession(SentCookie(r), x.t) )
        => /\ o.resp.verdict = "RateLimited"
           /\ o.resp.actuator = "-"
           /\ x.sb = session_blocked_until
           /\ x.ipb = ip_blocked_until
           /\ x.ck.blocked_until_ts = SentCookie(r).blocked_until_ts
           /\ x.sf = session_failed_attempts
           /\ x.ipf = ip_failed_attempts
           /\ \/ x.gfa = global_failed_attempts /\ x.glr = global_last_reset
              \/ /\ x.t - global_last_reset > HOUR
                 /\ x.gfa = 0 /\ x.glr # global_last_reset

\* A request with the right PIN, from a session that is also federated-
\* authenticated, has just been answered RateLimited because of a block that
\* is still in place
C1_Witness ==
    /\ last.op = "open_door" /\ last.verdict = "RateLimited"
    /\ last.why \in {"cookie", "session", "ip"}
    /\ PresentsMatchingPin(last.body)
    /\ FederatedSession(cookie["c1"], clock)
    /\ cookie["c1"].blocked_until_ts # None /\ clock < cookie["c1"].blocked_until_ts

\* C2: when a session's run of wrong PINs reaches SESSION_MAX_ATTEMPTS, the
\* in-memory session_blocked_until and the persisted blocked_until_ts are both
\* the time of that failure plus BLOCK_TIME, and equal to each other.
C2_SessionBlockExact ==
    \A s \in Steps(CoreRequests) :
        LET r == s[1]  o == s[2]  x == s[2].x IN
        ( /\ PresentsWrongPin(r.body) /\ o.resp.verdict = "InvalidPin"
          /\ x.sf[x.sid] = SESSION_MAX_ATTEMPTS )
        => /\ x.sb[x.sid] = clock + BLOCK_TIME
           /\ x.ck.blocked_until_ts = clock + BLOCK_TIME
           /\ x.sb[x.sid] = x.ck.blocked_until_ts

\* C3: a caller with an unexpired block in any of the three sources is
\* rejected as blocked, and the blocked_until of the response is the latest
\* end among the sources that are active.
C3_ReportsLatestBlock ==
    \A s \in Steps(CoreRequests) :
        LET r == s[1]  o == s[2]  x == s[2].x IN
        ( /\ ~is_request_suspicious(r.h)
          /\ x.gfa < MAX_GLOBAL_ATTEMPTS_PER_HOUR
          /\ ActiveBlockEnds(s) # {} )
        => /\ o.resp.verdict = "RateLimited"
           /\ o.resp.blocked_until = MaxOfSet(ActiveBlockEnds(s))

\* C4: on a wrong PIN, with the counters incremented: if the session counter
\* has reached SESSION_MAX_ATTEMPTS the session block is set, in memory and
\* in the persisted mirror, and is the one reported, whatever the IP counter;
\* otherwise if the IP counter has reached MAX_ATTEMPTS the IP block is set;
\* otherwise no block is set and a progressive delay is applied.  Exactly one
\* of the three happens.
C4_FailurePrecedence ==
    \A s \in Steps(OidcRequests) :
        LET r == s[1]  o == s[2]  x == s[2].x
            sent == SentCookie(r).blocked_until_ts
        IN
        (PresentsWrongPin(r.body) /\ o.resp.verdict = "InvalidPin")
        => /\ x.sf[x.sid] = session_failed_attempts[x.sid] + 1
           /\ x.ipf[x.ident] = ip_failed_attempts[x.ident] + 1
           /\ IF x.sf[x.sid] >= SESSION_MAX_ATTEMPTS
              THEN /\ x.sb[x.sid] = clock + BLOCK_TIME
                   /\ x.ck.blocked_until_ts >= clock + BLOCK_TIME
                   /\ x.ck.blocked_until_ts <= x.t + BLOCK_TIME
                   /\ o.resp.blocked_until = x.sb[x.sid]
                   /\ x.ipb = ip_blocked_until
                   /\ o.resp.delay = 0
              ELSE IF x.ipf[x.ident] >= MAX_ATTEMPTS
              THEN /\ x.ipb[x.ident] = clock + BLOCK_TIME
                   /\ o.resp.blocked_until = x.ipb[x.ident]
                   /\ x.sb = session_blocked_until
                   /\ x.ck.blocked_until_ts = sent
                   /\ o.resp.delay = 0
              ELSE /\ x.sb = session_blocked_until
                   /\ x.ipb = ip_blocked_until
                   /\ x.ck.blocked_until_ts = sent
                   /\ o.resp.delay >= 1

\* A wrong PIN has just set the session block although the IP counter had
\* reached its threshold too, and no IP block is in place
C4_Witness ==
    /\ last.op = "open_door" /\ last.why = "session_blocked"
    /\ PresentsWrongPin(last.body)
    /\ cookie["c1"].sid # None
    /\ session_blocked_until[cookie["c1"].sid] # None
    /\ clock < session_blocked_until[cookie["c1"].sid]
    /\ \E i \in Idents : /\ ip_failed_attempts[i] >= MAX_ATTEMPTS
                         /\ ~(ip_blocked_until[i] # None /\ clock < ip_blocked_until[i])

C6_IpBlockFromDistinctSessions ==
    \A s \in Steps(CoreRequests) :
        LET r == s[1]  o == s[2]  x == s[2].x IN
        /\ ( /\ PresentsWrongPin(r.body) /\ o.resp.verdict = "InvalidPin"
             /\ x.ipf[x.ident] = MAX_ATTEMPTS
             /\ x.sf[x.sid] < SESSION_MAX_ATTEMPTS )
           => x.ipb[x.ident] = clock + BLOCK_TIME
        /\ ( /\ ~is_request_suspicious(r.h)
             /\ ip_blocked_until[x.ident] # None
             /\ x.t < ip_blocked_until[x.ident] )
           => o.resp.verdict = "RateLimited" /\ o.resp.actuator = "-"

\* MAX_ATTEMPTS sessions have each sent one wrong PIN from the same key, and
\* the last of them has just set the IP block
C6_Witness ==
    /\ last.op = "open_door" /\ last.why = "ip_blocked"
    /\ Cardinality({sid \in Sids : session_failed_attempts[sid] = 1}) = MAX_ATTEMPTS
    /\ \E i \in Idents : /\ ip_failed_attempts[i] = MAX_ATTEMPTS
                         /\ ip_blocked_until[i] # None /\ clock < ip_blocked_until[i]

\* C7: while the global counter is at MAX_GLOBAL_ATTEMPTS_PER_HOUR or above
\* and the hourly window has not elapsed, every request that is not
\* suspicious, also one with a right PIN or a valid federated session, is
\* answered RateLimited without a call of the actuator.
C7_GlobalBudget ==
    \A s \in Steps(OidcRequests) :
        LET r == s[1]  o == s[2]  x == s[2].x IN
        ( /\ ~is_request_suspicious(r.h)
          /\ global_failed_attempts >= MAX_GLOBAL_ATTEMPTS_PER_HOUR
          /\ x.t - global_last_reset <= HOUR )
        => /\ o.resp.verdict = "RateLimited"
           /\ o.resp.actuator = "-"
           /\ x.gfa = global_failed_attempts

\* A request without a PIN from a valid federated session has just been
\* answered RateLimited because the global budget is used up
C7_Witness ==
    /\ last.op = "open_door" /\ last.verdict = "RateLimited" /\ last.why = "global"
    /\ ~PinSupplied(last.body)
    /\ FederatedSession(cookie["c1"], clock)
    /\ global_failed_attempts >= MAX_GLOBAL_ATTEMPTS_PER_HOUR

\* C8: the global check of a request sets the global counter to zero and the
\* window start to the time it reads exactly when that time is more than one
\* hour after the window start, and otherwise changes neither; nothing else,
\* a successful authorization included, resets or lowers the global counter,
\* so two resets are more than an hour apart.
C8_RequestRule ==
    \A s \in Steps(OidcRequests) :
        LET r == s[1]  o == s[2]  x == s[2].x IN
        /\ x.t - global_last_reset <= HOUR
           => x.glr = global_last_reset /\ x.gfa >= global_failed_attempts
        /\ (~is_request_suspicious(r.h) /\ clock - global_last_reset > HOUR)
           => x.glr # global_last_reset
        /\ x.glr # global_last_reset
           => /\ x.glr - global_last_reset > HOUR
              /\ clock <= x.glr /\ x.glr <= x.t
              /\ x.gfa = IF o.resp.verdict \in {"InvalidPin", "InvalidFormat"} THEN 1 ELSE 0
        /\ x.glr = global_last_reset
           => x.gfa = global_failed_attempts
                      + IF o.resp.verdict \in {"InvalidPin", "InvalidFormat"} THEN 1 ELSE 0
C8_OtherOperations ==
    (global_failed_attempts' < global_failed_attempts
     \/ global_last_reset' # global_last_reset)
    => /\ last'.op = "open_door"
       /\ global_last_reset' - global_last_reset > HOUR
       /\ global_last_reset' <= clock'
       /\ global_failed_attempts' <= 1
C8_GlobalWindow == [](C8_RequestRule) /\ [][C8_OtherOperations]_vars

\* A request has reset the window after the hour had passed, and the wrong
\* PIN it carried is the one failure counted in the new window
C8_Witness ==
    /\ last.op = "open_door" /\ last.verdict = "InvalidPin"
    /\ global_last_reset - 1 > HOUR
    /\ global_failed_attempts = 1
    /\ \E i \in Idents : ip_failed_attempts[i] > 1

\* C9: get_delay_seconds(n) is min(2^(n-1), 16) for n > 0 and 0 for n <= 0:
\* 1, 2, 4, 8, 16, 16, 16, ... for n = 1, 2, 3, ...; it never decreases as n
\* grows and never exceeds 16.
C9_ProgressiveDelay ==
    fn_ret # <<>> =>
        LET n == fn_arg  d == fn_ret[1] IN
        /\ n <= 0 => d = 0
        /\ n > 0 => d = Min(2 ^ (n - 1), 16)
        /\ n = 1 => d = 1
        /\ n = 2 => d = 2
        /\ n = 3 => d = 4
        /\ n = 4 => d = 8
        /\ n >= 5 => d = 16
        /\ d <= 16
        /\ \A m \in DelayArgs : m <= n => get_delay_seconds(m) <= d

\* The delay of the seventh attempt has been computed and is the cap
C9_Witness == fn_arg = 7 /\ fn_ret = <<16>>

\* C10: the door is opened on the federated path, without a PIN, only if in
\* that request OIDC is enabled, the session is federated-authenticated, its
\* stored exp is present and has not passed, its groups contain the
\* configured user group (when one is configured), require_pin_for_oidc is
\* false, no PIN was supplied and no block of the caller is active.
C10_FederatedGrant ==
    \A s \in Steps(PolicyProbes) :
        LET r == s[1]  o == s[2]  x == s[2].x  ck == SentCookie(s[1]) IN
        (o.resp.path = "oidc" /\ Authorized(o))
        => /\ oauth
           /\ ck.oidc_authenticated
           /\ ck.oidc_exp # None /\ ck.oidc_exp >= clock
           /\ cfg.oidc_user_group # "" => cfg.oidc_user_group \in ck.oidc_groups
           /\ ~cfg.require_pin_for_oidc
           /\ ~PinSupplied(r.body)
           /\ ~(session_blocked_until[x.sid] # None /\ x.now < session_blocked_until[x.sid])
           /\ ~(ip_blocked_until[x.ident] # None /\ x.now < ip_blocked_until[x.ident])
           /\ ~(ck.blocked_until_ts # None /\ x.t < ck.blocked_until_ts)

\* The door has just been opened for a federated session that sent no PIN
C10_Witness ==
    /\ last.op = "open_door" /\ last.verdict = "Granted" /\ last.path = "oidc"
    /\ ~PinSupplied(last.body)
    /\ FederatedSession(cookie["c1"], clock)
    /\ cfg.oidc_user_group \in cookie["c1"].oidc_groups
    /\ ~cfg.require_pin_for_oidc

\* The body has no "pin" key: no JSON object, or an object without the key
NoPinKey(body) == body.kind \in {"none", "dict"} /\ body.pt = "absent"

\* No block of the caller (in-memory session, in-memory IP, persisted) is
\* unexpired when the request arrives
NoBlockAtArrival(s) ==
    /\ ~SessionBlocked(session_blocked_until, s[2].x.sid, clock)
    /\ ~IpBlocked(ip_blocked_until, s[2].x.ident, clock)
    /\ ~CookieBlocked(SentCookie(s[1]), clock)

\* C11: a request that reaches the federated-session check with a session
\* marked authenticated whose stored exp has passed or is missing leaves the
\* session without the authenticated flag, user, groups, exp and without the
\* administrative flags, and is answered PinRequired if it carries no PIN.
C11_ExpiredSessionCleared ==
    \A s \in Steps(LoginProbes) :
        LET r == s[1]  o == s[2]  x == s[2].x  ck == SentCookie(s[1]) IN
        ( /\ ~is_request_suspicious(r.h)
          /\ global_failed_attempts < MAX_GLOBAL_ATTEMPTS_PER_HOUR
          /\ NoBlockAtArrival(s)
          /\ oauth /\ ck.oidc_authenticated
          /\ ck.oidc_exp = None \/ ck.oidc_exp < clock )
        => /\ ~x.ck.oidc_authenticated
           /\ x.ck.oidc_user = None
           /\ x.ck.oidc_groups = {}
           /\ x.ck.oidc_exp = None
           /\ ~x.ck.admin_authenticated
           /\ x.ck.admin_user = None
           /\ x.ck.admin_login_time = None
           /\ NoPinKey(r.body) => o.resp.verdict = "PinRequired"

\* A replayed callback: a token that is good in every other respect
Replays(st) ==
    { GoodToken(st, n, MaxTime, {"door-users", "door-admins"}) : n \in {None, 1, 2} }

\* C12: a callback whose state differs from the stored one is rejected and
\* authorize_access_token is not called; every callback removes the stored
\* state, so a second callback with the same state value is rejected, again
\* before the token exchange.
C12_StateCheck ==
    \A tok \in LoginTokens :
        LET ck == cookie["c1"]
            o == Callback(ck, tok, clock)
        IN  /\ o.ck.oidc_state = None
            /\ tok.state # ck.oidc_state
               => o.verdict = "Rejected" /\ o.why = "state" /\ ~o.exchanged
            /\ tok.state # None
               => \A again \in Replays(tok.state) :
                      LET o2 == Callback(o.ck, again, clock) IN
                      o2.verdict = "Rejected" /\ ~o2.exchanged

\* A callback with a stale state has just been rejected: the stored state is
\* gone, the nonce of the pending login is still there
C12_Witness ==
    /\ last.op = "oidc_callback" /\ last.verdict = "Rejected" /\ last.why = "state"
    /\ cookie["c1"].oidc_state = None
    /\ cookie["c1"].oidc_nonce # None

\* C13: after a callback that is rejected, the session holds no stored state,
\* no nonce and no federated session (authenticated flag, user, groups, exp,
\* administrative flags).
C13_FailClosed ==
    \A tok \in LoginTokens :
        LET o == Callback(cookie["c1"], tok, clock) IN
        o.verdict = "Rejected"
        => /\ o.ck.oidc_state = None
           /\ o.ck.oidc_nonce = None
           /\ ~o.ck.oidc_authenticated
           /\ o.ck.oidc_user = None
           /\ o.ck.oidc_groups = {}
           /\ o.ck.oidc_exp = None
           /\ ~o.ck.admin_authenticated
           /\ o.ck.admin_user = None

\* C14: with an admin group or a user group configured a token without
\* groups is rejected; with a user group configured a token that lacks it is
\* rejected and, when the group check is what rejects it, leaves an empty
\* session; a callback that is accepted
\* sets the administrative flags only if an admin group is configured and is
\* among the token's groups, and so never when no group is configured.
C14_GroupAuthorization ==
    \A tok \in LoginTokens :
        LET o == Callback(cookie["c1"], tok, clock)
        IN  /\ ((cfg.oidc_admin_group # "" \/ cfg.oidc_user_group # "") /\ tok.groups = {})
               => o.verdict = "Rejected"
            /\ (cfg.oidc_user_group # "" /\ cfg.oidc_user_group \notin tok.groups)
               => o.verdict = "Rejected" /\ (o.why = "groups" => o.ck = EmptyCookie)
            /\ o.verdict = "Authenticated"
               => /\ o.ck.oidc_authenticated /\ o.ck.oidc_groups = tok.groups
                  /\ (o.ck.admin_authenticated \/ o.ck.admin_user # None)
                     => cfg.oidc_admin_group # "" /\ cfg.oidc_admin_group \in tok.groups
                  /\ (cfg.oidc_admin_group = "" /\ cfg.oidc_user_group = "")
                     => ~o.ck.admin_authenticated /\ o.ck.admin_user = None

\* A login by a member of the configured admin group has just been accepted
\* and has set the administrative flags
C14_Witness ==
    /\ last.op = "oidc_callback" /\ last.verdict = "Authenticated"
    /\ cfg.oidc_admin_group # "" /\ cfg.oidc_admin_group \in cookie["c1"].oidc_groups
    /\ cookie["c1"].admin_authenticated /\ cookie["c1"].admin_user # None

\* The request gets as far as the reading of its body: it is not suspicious,
\* the global budget is not used up and no block of the caller is unexpired
ReachesBody(s) ==
    /\ ~is_request_suspicious(s[1].h)
    /\ global_failed_attempts < MAX_GLOBAL_ATTEMPTS_PER_HOUR
    /\ NoBlockAtArrival(s)

\* C15: a request that carries no PIN and is not served by the federated
\* path is answered PinRequired, and the IP, session and global counters and
\* every block entry stay as they were.
C15_NoPinNoCount ==
    \A s \in Steps(InputProbes) :
        LET r == s[1]  o == s[2]  x == s[2].x IN
        (ReachesBody(s) /\ ~PinSupplied(r.body) /\ o.resp.path # "oidc")
        => /\ o.resp.verdict = "PinRequired"
           /\ x.ipf = ip_failed_attempts
           /\ x.sf = session_failed_attempts
           /\ x.gfa <= global_failed_attempts
           /\ x.ipb = ip_blocked_until
           /\ x.sb = session_blocked_until
           /\ x.ck.blocked_until_ts = SentCookie(r).blocked_until_ts

\* C16: a request whose PIN is supplied but fails validate_pin_input (not a
\* string, not all digits, or shorter than 4 or longer than 8) is answered
\* InvalidFormat without a call of the actuator; the IP and session counters
\* of the caller and the global counter (after the window reset, if the hour
\* has passed) each go up by exactly one, and no block entry changes.
C16_InvalidFormatCounts ==
    \A s \in Steps(InputProbes) :
        LET r == s[1]  o == s[2]  x == s[2].x IN
        (ReachesBody(s) /\ PinSupplied(r.body) /\ ~validate_pin_input(r.body)[1])
        => /\ o.resp.verdict = "InvalidFormat" /\ o.resp.code = 400
           /\ o.resp.actuator = "-"
           /\ x.ipf = [ip_failed_attempts EXCEPT ![x.ident] = @ + 1]
           /\ x.sf = [session_failed_attempts EXCEPT ![x.sid] = @ + 1]
           /\ x.gfa = (IF x.glr # global_last_reset THEN 0 ELSE global_failed_attempts) + 1
           /\ x.ipb = ip_blocked_until
           /\ x.sb = session_blocked_until
           /\ x.ck.blocked_until_ts = SentCookie(r).blocked_until_ts

\* A PIN with a letter in it has just been answered InvalidFormat and counted
C16_Witness ==
    /\ last.op = "open_door" /\ last.verdict = "InvalidFormat"
    /\ PinSupplied(last.body) /\ last.body.pt = "str"
    /\ \E i \in 1..Len(last.body.ps) : last.body.ps[i] \notin DigitChars
    /\ cookie["c1"].sid # None /\ session_failed_attempts[cookie["c1"].sid] >= 1
    /\ global_failed_attempts >= 1

\* The outcome of the call of Home Assistant is an HTTP status
HttpStatus(ha) == ha \in {"200", "204", "500"}

\* C17: after a successful authorization, the actuator's success gives
\* Granted, an HTTP response with a status outside 2xx gives UpstreamError
\* with the status in the message, a network failure gives
\* UpstreamUnreachable, and an HTTP status is never answered
\* UpstreamUnreachable.
C17_ActuatorMapping ==
    \A s \in Steps(InputProbes) :
        LET o == s[2]  ha == s[2].resp.actuator IN
        ha # "-"
        => /\ ha = "200" => o.resp.verdict = "Granted"
           /\ ha = "500" => /\ o.resp.verdict = "UpstreamError"
                            /\ o.resp.message = "Home Assistant API error: " \o ha
           /\ ha = "ConnectionError" => o.resp.verdict = "UpstreamUnreachable"
           /\ HttpStatus(ha) => o.resp.verdict # "UpstreamUnreachable"

\* The texts of the exceptions
ExceptionTexts == {ExceptionText(v) : v \in {"InternalError", "ApiFailure"}}

AllReturned == \A u \in Threads : thr[u].pc \in {"idle", "done"}

\* C19: when the runs in flight have all returned, a block that one of them
\* set on reaching a threshold, and whose time has not passed, is still in
\* the table: no concurrent run that authorized successfully has deleted it.
C19_BlockSurvivesReset ==
    \A t \in Threads :
        ( /\ AllReturned
          /\ thr[t].pc = "done"
          /\ clock < thr[t].now + BLOCK_TIME )
        => /\ thr[t].why = "session_blocked" => session_blocked_until[thr[t].sid] # None
           /\ thr[t].why = "ip_blocked" => ip_blocked_until[RaceIdent] # None

\* C20, first part: while a run is in its progressive delay, the other
\* thread can take the next statement of its run, or start a run.
C20_OthersCanRun ==
    \A t \in Threads :
        thr[t].pc = "sleep"
        => LET u == Other(t) IN
           /\ thr[u].pc \notin {"idle", "done"} => ENABLED ThreadStep(u)
           /\ (thr[u].pc \in {"idle", "done"} /\ thr[u].n < MaxRuns)
              => ENABLED (\E sid \in RaceSids, ok \in BOOLEAN : Begin(u, sid, ok))

\* C20, second part: a run enters its delay from the threshold check and
\* writes no table on entering or leaving it; it came to the threshold check
\* by the statements that load and store the IP, the session and the global
\* counter, each store writing the loaded value plus one.
C20_CountedBeforeDelay ==
    \A t \in Threads :
        /\ (thr[t].pc # "sleep" /\ thr'[t].pc = "sleep")
           => /\ thr[t].pc = "threshold"
              /\ UNCHANGED <<ip_failed_attempts, session_failed_attempts,
                             global_failed_attempts, ip_blocked_until,
                             session_blocked_until, global_last_reset>>
        /\ (thr[t].pc = "sleep" /\ thr'[t].pc # "sleep")
           => /\ thr'[t].pc = "done" /\ thr'[t].verdict = "InvalidPin"
              /\ UNCHANGED <<ip_failed_attempts, session_failed_attempts,
                             global_failed_attempts, ip_blocked_until,
                             session_blocked_until, global_last_reset>>
        /\ (thr[t].pc # "threshold" /\ thr'[t].pc = "threshold")
           => thr[t].pc = "store_global"
        /\ (thr[t].pc = "store_global" /\ thr'[t].pc # "store_global")
           => global_failed_attempts' = thr[t].tmp + 1
        /\ (thr[t].pc # "store_global" /\ thr'[t].pc = "store_global")
           => thr[t].pc = "load_global" /\ thr'[t].tmp = global_failed_attempts
        /\ (thr[t].pc # "load_global" /\ thr'[t].pc = "load_global")
           => /\ thr[t].pc = "store_session"
              /\ session_failed_attempts'[thr[t].sid] = thr[t].tmp + 1
        /\ (thr[t].pc # "store_session" /\ thr'[t].pc = "store_session")
           => /\ thr[t].pc = "load_session"
              /\ thr'[t].tmp = session_failed_attempts[thr[t].sid]
        /\ (thr[t].pc # "load_session" /\ thr'[t].pc = "load_session")
           => /\ thr[t].pc = "store_ip"
              /\ ip_failed_attempts'[RaceIdent] = thr[t].tmp + 1
        /\ (thr[t].pc # "store_ip" /\ thr'[t].pc = "store_ip")
           => thr[t].pc = "count" /\ thr'[t].tmp = ip_failed_attempts[RaceIdent]

\* C20: while one run of open_door is suspended in its progressive delay the
\* other requests run on to their verdicts, and the counters the delayed run
\* incremented were written before the delay began.
C20_DelayBlocksNobody == [](C20_OthersCanRun) /\ [][C20_CountedBeforeDelay]_vars

\* A request that arrived while the other thread was in its delay has been
\* answered, and the other thread is still in that delay
C20_Witness ==
    \E t \in Threads :
        /\ thr[t].pc = "sleep"
        /\ thr[Other(t)].pc = "done"
        /\ thr[Other(t)].peer_n = thr[t].n
        /\ thr[Other(t)].verdict \in {"Granted", "InvalidPin"}

\* C21 as stated: once the session holds a session id, no operation removes
\* or replaces it: every step leaves the browser's _session_id as it was.
C21_SessionIdStable ==
    [][cookie["c1"].sid # None => cookie'["c1"].sid = cookie["c1"].sid]_vars

\* The persisted mirror of the session the request carries ends after the
\* last reading of the clock of the run
MirrorInFuture(s) ==
    /\ SentCookie(s[1]).blocked_until_ts # None
    /\ s[2].x.t < SentCookie(s[1]).blocked_until_ts

\* C22 as stated: every request whose session carries blocked_until_ts in
\* the future is answered RateLimited with that timestamp.
C22_PersistedBlockAsStated ==
    \A s \in Steps(PolicyProbes) :
        MirrorInFuture(s)
        => /\ s[2].resp.verdict = "RateLimited"
           /\ s[2].resp.blocked_until = SentCookie(s[1]).blocked_until_ts

\* C22, amended: every request that is not suspicious and that the global
\* budget admits, and whose session carries blocked_until_ts in the future,
\* is answered RateLimited with that timestamp without a call of the
\* actuator, whatever the in-memory tables hold and whatever PIN it carries;
\* a suspicious request is answered Suspicious and one beyond the global
\* budget RateLimited without a timestamp.
C22_PersistedBlock ==
    \A s \in Steps(PolicyProbes) :
        LET r == s[1]  o == s[2] IN
        MirrorInFuture(s)
        => IF is_request_suspicious(r.h)
           THEN o.resp.verdict = "Suspicious"
           ELSE IF o.resp.why = "global"
           THEN o.resp.verdict = "RateLimited" /\ o.resp.blocked_until = None
           ELSE /\ o.resp.verdict = "RateLimited"
                /\ o.resp.why = "cookie"
                /\ o.resp.blocked_until = SentCookie(r).blocked_until_ts
                /\ o.resp.actuator = "-"

\* After a restart the tables are empty, and a request with a user's PIN
\* has been turned away on the persisted mirror alone
C22_Witness ==
    /\ last.op = "open_door" /\ last.verdict = "RateLimited" /\ last.why = "cookie"
    /\ PresentsMatchingPin(last.body)
    /\ \A sid \in Sids : session_blocked_until[sid] = None
    /\ \A i \in Idents : ip_blocked_until[i] = None /\ ip_failed_attempts[i] = 0
    /\ \A sid \in Sids : session_failed_attempts[sid] = 0

\* C23 as stated: validate_pin_input answers <<TRUE, the input>> exactly on
\* the strings of 4 to 8 characters that are all digits 0 to 9, and
\* <<FALSE, None>> on every other input.
C23_ValidateFormat ==
    fn_ret # <<>>
    => fn_ret[1] =
         IF /\ fn_arg.pt = "str"
            /\ Len(fn_arg.ps) \in 4..8
            /\ \A i \in 1..Len(fn_arg.ps) : fn_arg.ps[i] \in DigitChars
         THEN <<TRUE, fn_arg.ps>>
         ELSE <<FALSE, <<>>>>

\* The run left the IP and session counters and every block entry (the two
\* in-memory tables and the persisted mirror) as it found them
BlocksAndCountersKept(s) ==
    LET x == s[2].x IN
    /\ x.ipf = ip_failed_attempts
    /\ x.sf = session_failed_attempts
    /\ x.ipb = ip_blocked_until
    /\ x.sb = session_blocked_until
    /\ x.ck.blocked_until_ts = SentCookie(s[1]).blocked_until_ts

\* C24 as stated: a request answered RateLimited leaves the three failure
\* counters and every block entry unchanged.
C24_RateLimitedAsStated ==
    \A s \in Steps(InputProbes) :
        s[2].resp.verdict = "RateLimited"
        => /\ BlocksAndCountersKept(s)
           /\ s[2].x.gfa = global_failed_attempts

\* C24, amended: a request answered RateLimited leaves the IP and session
\* counters and every block entry unchanged and never adds to the global
\* counter; the global counter stays as it was unless the hourly window has
\* elapsed, in which case the request's global check sets it to zero and
\* starts a new window.
C24_RateLimitedNotCounted ==
    \A s \in Steps(InputProbes) :
        LET x == s[2].x IN
        s[2].resp.verdict = "RateLimited"
        => /\ BlocksAndCountersKept(s)
           /\ \/ x.gfa = global_failed_attempts /\ x.glr = global_last_reset
              \/ /\ x.gfa = 0 /\ x.glr > global_last_reset + HOUR
                 /\ s[2].resp.why # "global"

\* A wrong PIN has been turned away on a block of the session, whose
\* counter stands where it stood when the block was set
C24_Witness ==
    /\ last.op = "open_door" /\ last.verdict = "RateLimited"
    /\ last.why \in {"cookie", "session", "ip"}
    /\ PresentsWrongPin(last.body)
    /\ cookie["c1"].sid # None
    /\ session_failed_attempts[cookie["c1"].sid] = SESSION_MAX_ATTEMPTS

\* The first runs of the threads that were answered Invalid PIN on session sid
FailedFirstRuns(sid) ==
    { t \in Threads : thr[t].n = 1 /\ thr[t].verdict = "InvalidPin" /\ thr[t].sid = sid }

\* C25 as stated, for the first runs of the threads: when wrong-PIN runs
\* have completed with no successful authorization and no hourly reset, the
\* IP counter and the global counter have grown by the number of those
\* runs, and each session counter by the number of them on that session.
C25_NoUnderCount ==
    ( /\ AllReturned
      /\ global_last_reset = 1
      /\ \A t \in Threads : thr[t].n <= 1 /\ (thr[t].n = 1 => ~thr[t].ok) )
    => /\ ip_failed_attempts[RaceIdent] =
              Cardinality(UNION { FailedFirstRuns(sid) : sid \in RaceSids })
       /\ global_failed_attempts =
              Cardinality(UNION { FailedFirstRuns(sid) : sid \in RaceSids })
       /\ \A sid \in RaceSids :
              session_failed_attempts[sid] = Cardinality(FailedFirstRuns(sid))

\* The run came to the block checks: it was not turned away as suspicious
\* or on the global budget
ReachedBlockChecks(o) == o.resp.why \notin {"suspicious", "global"}

\* C26 as stated: a request that has looked at a block entry of its caller
\* whose time has passed (persisted mirror, in-memory session block,
\* in-memory IP block) leaves the state without that entry.
C26_ExpiredBlockRemoved ==
    \A s \in Steps(InputProbes) :
        LET r == s[1]  o == s[2]  x == s[2].x IN
        /\ ( /\ ReachedBlockChecks(o) /\ o.resp.why # "cookie"
             /\ SentCookie(r).blocked_until_ts # None )
           => x.ck.blocked_until_ts = None
        /\ ( /\ ReachedBlockChecks(o) /\ o.resp.why # "cookie"
             /\ session_blocked_until[x.sid] # None
             /\ ~SessionBlocked(session_blocked_until, x.sid, x.now) )
           => x.sb[x.sid] = None
        /\ ( /\ ReachedBlockChecks(o) /\ o.resp.why \notin {"cookie", "session"}
             /\ ip_blocked_until[x.ident] # None
             /\ ~IpBlocked(ip_blocked_until, x.ident, x.now) )
           => x.ipb[x.ident] = None

\* The call of Home Assistant failed: an HTTP status other than 200, a
\* network failure or another exception
UpstreamFailed(o) == o.resp.verdict \in {"UpstreamError", "UpstreamUnreachable", "ApiFailure"}

\* C27: when the call of Home Assistant fails after a successful
\* authorization, the caller's IP and session counters are zero and its
\* in-memory block entries are absent, as the reset left them; the global
\* counter has not grown; the persisted mirror is absent after a PIN
\* authorization and, after a federated one, is the expired one the request
\* carried, if any: the failure has counted nothing and set no block.
C27_UpstreamFailureCountsNothing ==
    \A s \in Steps(InputProbes) :
        LET r == s[1]  o == s[2]  x == s[2].x IN
        UpstreamFailed(o)
        => /\ o.resp.path \in {"pin", "oidc"}
           /\ x.ipf = [ip_failed_attempts EXCEPT ![x.ident] = 0]
           /\ x.sf = [session_failed_attempts EXCEPT ![x.sid] = 0]
           /\ x.ipb = [ip_blocked_until EXCEPT ![x.ident] = None]
           /\ x.sb = [session_blocked_until EXCEPT ![x.sid] = None]
           /\ x.gfa <= global_failed_attempts
           /\ IF o.resp.path = "pin"
              THEN x.ck.blocked_until_ts = None
              ELSE /\ x.ck.blocked_until_ts = SentCookie(r).blocked_until_ts
                   /\ ~CookieBlocked(x.ck, x.t)

\* After earlier failures, an authorized request met a failing call of Home
\* Assistant, and the caller's counters are zero
C27_Witness ==
    /\ last.op = "open_door"
    /\ last.verdict \in {"UpstreamError", "UpstreamUnreachable", "ApiFailure"}
    /\ global_failed_attempts > 0
    /\ cookie["c1"].sid # None
    /\ session_failed_attempts[cookie["c1"].sid] = 0
    /\ \A i \in Idents : ip_failed_attempts[i] = 0

C29_TokenTimeWindow ==
    oauth =>
    \A tok \in {tk \in LoginTokens : tk.state # None} :
        LET o == Callback(cookie["c1"], tok, clock) IN
        /\ o.verdict = "Authenticated"
           => /\ tok.exp # None /\ tok.exp + Leeway >= clock
              /\ tok.nbf # None => tok.nbf - Leeway <= clock
        /\ (tok.exp = None \/ tok.exp + Leeway < clock)
           => /\ o.verdict = "Rejected"
              /\ o.ck.oidc_authenticated => cookie["c1"].oidc_authenticated
              /\ o.ck.admin_authenticated => cookie["c1"].admin_authenticated

\* C30: a request whose User-Agent is missing, shorter than 10 characters
\* or contains a non-browser signature is answered Suspicious (403) whatever
\* it carries and whatever the state: the actuator is not called, the
\* counters, the window of the global budget and the block entries are as
\* they were (no later check has run), and the clock was not read again.
C30_SuspiciousFirst ==
    \A s \in Steps(OidcProbes) :
        LET r == s[1]  o == s[2]  x == s[2].x IN
        (r.h.ualen < 10 \/ r.h.botsig)
        => /\ o.resp.verdict = "Suspicious" /\ o.resp.code = 403
           /\ o.resp.actuator = "-"
           /\ BlocksAndCountersKept(s)
           /\ x.gfa = global_failed_attempts /\ x.glr = global_last_reset
           /\ x.t = clock
           /\ [x.ck EXCEPT !.sid = SentCookie(r).sid] = SentCookie(r)

\* A suspicious request with a user's PIN has been answered Suspicious
\* while the session was blocked and the hourly window had elapsed
C30_Witness ==
    /\ last.op = "open_door" /\ last.verdict = "Suspicious"
    /\ PresentsMatchingPin(last.body)
    /\ CookieBlocked(cookie["c1"], clock)
    /\ clock - global_last_reset > HOUR

\* C31: admin_auth and open_door share the session counter and the
\* in-memory session block.  A wrong admin password from a session that is
\* not blocked adds one to the session's counter, whatever open_door or
\* admin_auth had counted before, and when the counter has reached
\* SESSION_MAX_ATTEMPTS sets the session block to the time of the request
\* plus BLOCK_TIME; while a session block is active no request of that
\* session to open_door is granted, and one that is not suspicious and is
\* within the global budget is answered RateLimited.
C31_SharedSessionLockout ==
    /\ \A s \in AdminSteps(AdminRequests) :
           LET r == s[1]  o == s[2]  x == s[2].x IN
           ( /\ r.password # admin_password
             /\ ~SessionBlocked(session_blocked_until, x.sid, clock) )
           => /\ o.resp.verdict = "AdminDenied"
              /\ x.sf = [session_failed_attempts EXCEPT ![x.sid] = @ + 1]
              /\ IF session_failed_attempts[x.sid] + 1 >= SESSION_MAX_ATTEMPTS
                 THEN x.sb = [session_blocked_until EXCEPT ![x.sid] = clock + BLOCK_TIME]
                 ELSE x.sb = session_blocked_until
    /\ \A s \in Steps(AdminProbes) :
           LET o == s[2]  x == s[2].x IN
           SessionBlocked(session_blocked_until, x.sid, clock)
           => /\ o.resp.verdict \in {"Suspicious", "RateLimited"}
              /\ o.resp.actuator = "-"
              /\ ReachedBlockChecks(o) => o.resp.why \in {"cookie", "session"}

\* open_door has turned the session away on a block that admin_auth set
\* (open_door's own blocks come with the persisted mirror), after a wrong
\* PIN had been counted
C31_Witness ==
    /\ last.op = "open_door" /\ last.verdict = "RateLimited" /\ last.why = "session"
    /\ cookie["c1"].blocked_until_ts = None
    /\ \E i \in Idents : ip_failed_attempts[i] > 0

\* C32: a request in which Home Assistant is called (the response records
\* the one call of the run) is not suspicious, found the global budget not
\* exhausted and no block of the caller active, and either carried a
\* well-formed PIN that is a user's PIN or went the federated way: OIDC
\* enabled, a federated session with an unexpired exp and the configured
\* user group, no PIN required from federated users and no PIN sent.
C32_ActuatorSafety ==
    \A s \in Steps(PolicyProbes) :
        LET r == s[1]  o == s[2]  x == s[2].x  ck == SentCookie(s[1]) IN
        o.resp.actuator # "-"
        => /\ o.resp.actuator \in HAOutcomes
           /\ r.h.ualen >= 10 /\ ~r.h.botsig
           /\ x.gfa < MAX_GLOBAL_ATTEMPTS_PER_HOUR
           /\ ~(session_blocked_until[x.sid] # None /\ x.now < session_blocked_until[x.sid])
           /\ ~(ip_blocked_until[x.ident] # None /\ x.now < ip_blocked_until[x.ident])
           /\ ~(ck.blocked_until_ts # None /\ x.t < ck.blocked_until_ts)
           /\ \/ o.resp.path = "pin" /\ PresentsMatchingPin(r.body)
              \/ /\ o.resp.path = "oidc"
                 /\ ~PinSupplied(r.body)
                 /\ oauth /\ ck.oidc_authenticated
                 /\ ck.oidc_exp # None /\ ck.oidc_exp >= clock
                 /\ cfg.oidc_user_group # "" => cfg.oidc_user_group \in ck.oidc_groups
                 /\ ~cfg.require_pin_for_oidc

\* The door has been opened on a user's PIN for a federated session from
\* which the deployment requires a PIN
C32_Witness ==
    /\ last.op = "open_door" /\ last.verdict = "Granted" /\ last.path = "pin"
    /\ PresentsMatchingPin(last.body)
    /\ FederatedSession(cookie["c1"], clock)
    /\ cfg.require_pin_for_oidc

\* C33 as stated: a callback that arrives while the session holds no
\* pending login (no stored state and no stored nonce), whatever state and
\* nonce it carries, a missing state and a missing nonce claim included, is
\* rejected and stores no authenticated federated session.
C33_CallbackNeedsLogin ==
    (oauth /\ cookie["c1"].oidc_state = None /\ cookie["c1"].oidc_nonce = None)
    => \A tok \in LoginTokens :
           LET o == Callback(cookie["c1"], tok, clock) IN
           /\ o.verdict = "Rejected"
           /\ o.ck.oidc_authenticated => cookie["c1"].oidc_authenticated

\* C34 as stated: whenever open_door reports a count of remaining attempts
\* on a wrong PIN, the count is at least 1.
C34_RemainingAtLeastOne ==
    \A t \in Threads :
        (thr[t].pc = "done" /\ thr[t].why = "delayed") => thr[t].remaining >= 1

\* C35 as stated: in every reachable state, concurrent handlers included,
\* the global counter of failed attempts is at most
\* MAX_GLOBAL_ATTEMPTS_PER_HOUR.
C35_GlobalBudgetBound ==
    global_failed_attempts <= MAX_GLOBAL_ATTEMPTS_PER_HOUR

\* The run authorized the caller: the PIN matched or the federated session
\* was accepted, whatever Home Assistant answered afterwards
AuthorizedCaller(r, o) ==
    /\ o.resp.verdict \in {"Granted", "UpstreamError", "UpstreamUnreachable", "ApiFailure"}
    /\ \/ o.resp.path = "pin" /\ PresentsMatchingPin(r.body)
       \/ o.resp.path = "oidc" /\ ~PinSupplied(r.body) /\ SentCookie(r).oidc_authenticated

\* C36: a run of open_door lowers a session or IP counter only when it
\* authorizes the caller (PIN match or federated grant), a run of admin_auth
\* lowers a session counter only on the correct password; a block that
\* has run out leaves the counters as they are, so a wrong PIN from a session whose counter has reached
\* SESSION_MAX_ATTEMPTS and whose block is over is answered with a new
\* session block (the request's time plus BLOCK_TIME) and not with a
\* progressive delay.
C36_ResetOnlyBySuccess ==
    /\ \A s \in Steps(AdminProbes) :
           LET r == s[1]  o == s[2]  x == s[2].x IN
           /\ ( \/ \E k \in Sids : x.sf[k] < session_failed_attempts[k]
                \/ \E i \in Idents : x.ipf[i] < ip_failed_attempts[i] )
              => AuthorizedCaller(r, o)
           /\ ( /\ session_failed_attempts[x.sid] >= SESSION_MAX_ATTEMPTS
                /\ o.resp.verdict = "InvalidPin" )
              => /\ o.resp.why = "session_blocked"
                 /\ o.resp.delay = 0
                 /\ x.sb[x.sid] = clock + BLOCK_TIME
    /\ \A s \in AdminSteps(AdminRequests) :
           LET r == s[1]  o == s[2]  x == s[2].x IN
           /\ (\E k \in Sids : x.sf[k] < session_failed_attempts[k])
              => r.password = admin_password /\ o.resp.verdict = "AdminGranted"

\* A session's block has run out, its entry is still in the table and its
\* counter stands at the limit or above; the next wrong PIN sets a new block
C36_Witness ==
    \E s \in Steps(AdminProbes) :
        LET o == s[2]  x == s[2].x IN
        /\ session_blocked_until[x.sid] # None
        /\ session_blocked_until[x.sid] <= clock
        /\ session_failed_attempts[x.sid] >= SESSION_MAX_ATTEMPTS
        /\ o.resp.verdict = "InvalidPin" /\ o.resp.why = "session_blocked"
        /\ x.sb[x.sid] = clock + BLOCK_TIME

\* C37: a request answered InvalidFormat leaves every block entry (the
\* in-memory session and IP blocks, the persisted mirror) as it was,
\* whatever the counters have reached; a run of open_door sets a block
\* entry only on a well-formed PIN that matches no user, and a run of
\* admin_auth only on a wrong password.
C37_InvalidFormatNeverBlocks ==
    /\ \A s \in Steps(InputProbes) :
           LET r == s[1]  o == s[2]  x == s[2].x IN
           /\ o.resp.verdict = "InvalidFormat"
              => /\ x.sb = session_blocked_until
                 /\ x.ipb = ip_blocked_until
                 /\ x.ck.blocked_until_ts = SentCookie(r).blocked_until_ts
           /\ ( \/ \E k \in Sids : x.sb[k] # None /\ x.sb[k] # session_blocked_until[k]
                \/ \E i \in Idents : x.ipb[i] # None /\ x.ipb[i] # ip_blocked_until[i]
                \/ /\ x.ck.blocked_until_ts # None
                   /\ x.ck.blocked_until_ts # SentCookie(r).blocked_until_ts )
              => /\ o.resp.verdict = "InvalidPin"
                 /\ validate_pin_input(r.body)[1]
                 /\ MatchUser(validate_pin_input(r.body)[2]) = ""
    /\ \A s \in AdminSteps(AdminRequests) :
           LET r == s[1]  x == s[2].x IN
           (\E k \in Sids : x.sb[k] # None /\ x.sb[k] # session_blocked_until[k])
           => r.password # admin_password

\* PINs of invalid format have taken the session's counter beyond
\* SESSION_MAX_ATTEMPTS and an IP counter to MAX_ATTEMPTS, and no block of
\* any kind is set
C37_Witness ==
    /\ last.op = "open_door" /\ last.verdict = "InvalidFormat"
    /\ cookie["c1"].sid # None
    /\ session_failed_attempts[cookie["c1"].sid] > SESSION_MAX_ATTEMPTS
    /\ \E i \in Idents : ip_failed_attempts[i] >= MAX_ATTEMPTS
    /\ \A k \in Sids : session_blocked_until[k] = None
    /\ \A i \in Idents : ip_blocked_until[i] = None
    /\ cookie["c1"].blocked_until_ts = None

\* C38: the IP counter and IP block that a run of open_door reads and
\* writes are those of the composite key, the address with the hash of the
\* User-Agent and Accept-Language headers: the entries of every other key,
\* those of the same address included, are left as they were, and a request
\* is turned away on an IP block only if the block of its own key is
\* active.
C38_CompositeKey ==
    \A s \in Steps(FingerprintProbes) :
        LET r == s[1]  o == s[2]  x == s[2].x  own == <<r.ip, HashMod(r.h)>> IN
        /\ x.ident = own
        /\ \A j \in Idents \ {own} :
               x.ipf[j] = ip_failed_attempts[j] /\ x.ipb[j] = ip_blocked_until[j]
        /\ ( /\ o.resp.verdict = "RateLimited"
             /\ \/ o.resp.why = "ip"
                \/ /\ o.resp.why = "recheck"
                   /\ ~SessionBlocked(session_blocked_until, x.sid, clock) )
           => IpBlocked(ip_blocked_until, own, clock)

\* While the IP block of one key of an address is active, a request from
\* the same address with the other fingerprint has been granted
C38_Witness ==
    /\ last.op = "open_door" /\ last.verdict = "Granted"
    /\ \E i \in Idents :
           /\ IpBlocked(ip_blocked_until, i, clock)
           /\ \E j \in Idents \ {i} : j[1] = i[1] /\ ~IpBlocked(ip_blocked_until, j, clock)

\* C39: while the in-memory block of the caller's session is active,
\* admin_auth answers 429 whatever the password, the correct one included:
\* it does not set admin_authenticated, the session's counter and block and
\* the rest of the rate-limit tables are as they were, and so is the
\* session.
C39_AdminBlockedFirst ==
    \A s \in AdminSteps(AdminRequests) :
        LET r == s[1]  o == s[2]  x == s[2].x IN
        SessionBlocked(session_blocked_until, x.sid, clock)
        => /\ o.resp.verdict = "RateLimited" /\ o.resp.code = 429
           /\ x.sf = session_failed_attempts
           /\ x.sb = session_blocked_until
           /\ x.ck = SentCookie(r)
           /\ x.ck.admin_authenticated = cookie[r.c].admin_authenticated

\* The correct admin password arrives from a session whose block is active
\* and is answered 429
C39_Witness ==
    \E s \in AdminSteps(AdminRequests) :
        /\ s[1].password = admin_password
        /\ ~cookie[s[1].c].admin_authenticated
        /\ SessionBlocked(session_blocked_until, s[2].x.sid, clock)
        /\ s[2].resp.verdict = "RateLimited"

\* C40: blocks are time-boxed.  A request that arrives while an in-memory
\* block of its session or of its key is active, or that is turned away on
\* the persisted mirror, leaves every block entry as it was, so the ends of
\* the blocks do not move; and once the time of a request has reached the
\* ends of the session block, of the IP block and of the persisted mirror of
\* its caller, a request with a user's PIN that is not suspicious and finds
\* the global budget not exhausted is let through to Home Assistant and is
\* Granted when Home Assistant answers 200.
C40_BlocksTimeBoxed ==
    \A s \in Steps(FingerprintProbes) :
        LET r == s[1]  o == s[2]  x == s[2].x  ck == SentCookie(s[1]) IN
        /\ ( \/ session_blocked_until[x.sid] # None /\ clock < session_blocked_until[x.sid]
             \/ ip_blocked_until[x.ident] # None /\ clock < ip_blocked_until[x.ident]
             \/ o.resp.verdict = "RateLimited" /\ o.resp.why = "cookie" )
           => /\ o.resp.verdict \in {"Suspicious", "RateLimited"}
              /\ x.sb = session_blocked_until
              /\ x.ipb = ip_blocked_until
              /\ x.ck.blocked_until_ts = ck.blocked_until_ts
        /\ ( /\ session_blocked_until[x.sid] = None \/ clock >= session_blocked_until[x.sid]
             /\ ip_blocked_until[x.ident] = None \/ clock >= ip_blocked_until[x.ident]
             /\ ck.blocked_until_ts = None \/ clock >= ck.blocked_until_ts
             /\ PresentsMatchingPin(r.body)
             /\ r.h.ualen >= 10 /\ ~r.h.botsig
             /\ o.resp.why # "global" )
           => /\ o.resp.actuator \in HAOutcomes
              /\ o.resp.actuator = "200" => o.resp.verdict = "Granted"

\* The session's block and its persisted mirror have run out, their entries
\* are still there, and the user's PIN opens the door
C40_Witness ==
    \E s \in Steps(FingerprintProbes) :
        LET o == s[2]  x == s[2].x  ck == SentCookie(s[1]) IN
        /\ session_blocked_until[x.sid] # None /\ clock >= session_blocked_until[x.sid]
        /\ ck.blocked_until_ts # None /\ clock >= ck.blocked_until_ts
        /\ o.resp.verdict = "Granted"

====
